---- MODULE Spec2Model ----
(***************************************************************************)
(* Batched delivery engine of matsav_ok_bot:                               *)
(* OptimizedNotificationScheduler (scheduler_optimized.py) together with   *)
(* the parts of OptimizedDatabase (database_optimized.py) it calls.        *)
(*                                                                         *)
(* The program runs on one asyncio event loop: the code between two awaits *)
(* is atomic, and every action below is one such stretch of code.  Each    *)
(* installed job (trigger) has at most one invocation of                   *)
(* send_batch_notification in flight (max_instances=1), so the invocations *)
(* are indexed by trigger.  The delivery tasks created by _send_batch are  *)
(* indexed by recipient.                                                   *)
(***************************************************************************)
EXTENDS Integers, Sequences, FiniteSets, TLC

\* ---------------------------------------------------------------- bounds
MaxUsers == 3            \* rows of the users table
MaxBatchSize == 2        \* batch sizes explored (the program configures 50)
DailyNotifications == 1  \* daily jobs installed (config.DAILY_NOTIFICATIONS)
MaxRuns == 2             \* broadcasts numbered per behaviour

MaxSubjects == 2         \* users who talk to the security manager
MaxClock == 10800        \* minutes of wall-clock time explored
MaxPieces == 3           \* pieces of a text that is scored piece by piece
MaxNew == 2              \* messages a subject adds to the record it starts with

\* ------------------------------------------------------ program constants
ConfiguredBatchSize == 50
RetryAfterCap == 60
\* timedelta(minutes=1), timedelta(hours=1), timedelta(days=1) and
\* timedelta(days=7), in minutes
OneMinute == 1
HourMinutes == 60
DayMinutes == 1440
WeekMinutes == 10080

Users == 1..MaxUsers
\* job 0 is "test_notification_scheduled", jobs 1..N are "daily_notification_i"
Triggers == 0..DailyNotifications
\* retry_after values the transport may answer with (below and above the cap)
RetryAfters == {1, 90}
DefaultPhrase == "default"
\* what get_random_phrase can hand back: the built-in default (empty cache or
\* error), the text of an active phrase, and the empty text the schema admits
PhraseResults == {DefaultPhrase, "phrase", ""}

Min(a, b) == IF a <= b THEN a ELSE b

\* ------------------------------------------------------------- job store
\* time_slots of schedule_daily_notifications: (start_hour, end_hour)
TimeSlots == <<<<7, 9>>, <<9, 11>>, <<11, 13>>, <<13, 15>>, <<15, 17>>,
               <<17, 19>>, <<19, 21>>, <<21, 23>>>>

\* job ids: TestJob is "test_notification_scheduled", DailyJobs are
\* "daily_notification_i" for i in range(min(DAILY_NOTIFICATIONS, 8)), RetryJob
\* is "retry_failed_notifications"
TestJob == 0
DailyJobs == 1..Min(DailyNotifications, Len(TimeSlots))
RetryJob == DailyNotifications + 1
JobIds == Triggers \cup {RetryJob}

\* a job's CronTrigger: fires every day at hour:minute (RetryTrigger: every
\* ten minutes, hour and minute are not used)
NoJob == [kind |-> "none", slot |-> 0, hour |-> 0, minute |-> 0]
RetryTrigger == [kind |-> "retry", slot |-> 0, hour |-> 0, minute |-> 0]
CronTrigger(k, s, h, m) == [kind |-> k, slot |-> s, hour |-> h, minute |-> m]

\* random.randint(a, b)
RandInt(a, b) == a..b
\* random.randint(0, 59), the two ends
Minutes == {0, 59}

\* variant: randint(start_hour, end_hour)
RandomHours_inclusive(s) == RandInt(TimeSlots[s][1], TimeSlots[s][2])

\* random.randint(start_hour, end_hour - 1)
RandomHours(s) == RandInt(TimeSlots[s][1], TimeSlots[s][2] - 1)

\* the triggers one bracket can give
SlotTriggers(s) ==
    {CronTrigger("daily", s, h, m) : h \in RandomHours(s), m \in Minutes}

\* random.sample(time_slots, n): n brackets, no bracket twice
Sample(n) ==
    {q \in [1..n -> 1..Len(TimeSlots)] :
        \A i, j \in 1..n : i # j => q[i] # q[j]}

\* what the loop of schedule_daily_notifications can draw for n jobs
Draws(n) ==
    {d \in [1..n -> UNION {SlotTriggers(s) : s \in 1..Len(TimeSlots)}] :
        [i \in 1..n |-> d[i].slot] \in Sample(n)}

\* times of day
Time(h, m) == [hour |-> h, minute |-> m]
ToMinutes(t) == t.hour * 60 + t.minute
FromMinutes(x) == Time((x \div 60) % 24, x % 60)
\* datetime.now() when a handler calls in
Nows == {Time(8, 30), Time(23, 59)}
\* minutes_from_now of schedule_test_notification (the handler passes 1)
Delays == {1}

\* ------------------------------------------------------------- security
Subjects == 1..MaxSubjects
\* self.rate_limits
RateLimits == [messages_per_hour |-> 10, phrases_per_day |-> 3,
               commands_per_minute |-> 5]
\* how far the clock moves between two calls
Ticks == {720}

\* self.suspicious_patterns, each named for what its regex looks for:
\* (.)\1{5,}  [!]{3,}  [?]{3,}  ten capitals in a row  bit\.ly|tinyurl|t\.me/\w+
\* @\w+  words of selling  words of money  words of channel promotion
SuspiciousPatterns == <<"repeat", "excl", "quest", "upper", "link", "mention",
                        "sale", "money", "channel">>

\* A text is a sequence of pieces typed with one space between them.  The
\* pieces, as typed: a plain word; one letter six times; three and six
\* exclamation marks; three question marks; ten different capitals and the
\* same word in small letters; the word of selling in capitals and in small
\* letters; a second word of selling; a word of money; a word of channel
\* promotion; a short link; a mention.  No regex of the list matches across
\* the space between two pieces.
Pieces == {"hello", "aaaaaa", "!!!", "!!!!!!", "???", "PRIVETVSEM",
           "privetvsem", "KUPI", "kupi", "skidka", "dengi", "kanal", "bit.ly",
           "@name"}

\* str.lower() of one piece
LowerPiece(p) ==
    CASE p = "PRIVETVSEM" -> "privetvsem"
      [] p = "KUPI" -> "kupi"
      [] OTHER -> p

\* text.lower()
Lower(text) == [i \in 1..Len(text) |-> LowerPiece(text[i])]

\* the pieces in which the regex of the pattern finds a match
Hits(pattern) ==
    CASE pattern = "repeat" -> {"aaaaaa", "!!!!!!"}
      [] pattern = "excl" -> {"!!!", "!!!!!!"}
      [] pattern = "quest" -> {"???"}
      [] pattern = "upper" -> {"PRIVETVSEM"}
      [] pattern = "link" -> {"bit.ly"}
      [] pattern = "mention" -> {"@name"}
      [] pattern = "sale" -> {"kupi", "skidka"}
      [] pattern = "money" -> {"dengi"}
      [] pattern = "channel" -> {"kanal"}

\* variant: re.fullmatch in place of re.search
Search_fullmatch(pattern, text) ==
    Len(text) = 1 /\ text[1] \in Hits(pattern)

\* re.search(pattern, text): a match anywhere in the text
Search(pattern, text) ==
    \E i \in 1..Len(text) : text[i] \in Hits(pattern)

\* the list with pattern p once for every piece of the text it matches
RECURSIVE Findall(_, _)
Findall(p, text) ==
    IF text = <<>> THEN <<>>
    ELSE (IF Head(text) \in Hits(p) THEN <<p>> ELSE <<>>)
            \o Findall(p, Tail(text))

RECURSIVE EveryMatch(_, _)
EveryMatch(patterns, text) ==
    IF patterns = <<>> THEN <<>>
    ELSE Findall(Head(patterns), text) \o EveryMatch(Tail(patterns), text)

\* variant: every match is listed, not every pattern that matches
CheckSuspiciousContent_every_match(text) ==
    EveryMatch(SuspiciousPatterns, Lower(text))

\* check_suspicious_content: found_patterns, the patterns of the list that
\* find a match in text.lower(), in the order of the list
CheckSuspiciousContent(text) ==
    SelectSeq(SuspiciousPatterns, LAMBDA p : Search(p, Lower(text)))

\* the phrases submitted
Texts == {<<>>, <<"hello">>, <<"!!!">>, <<"PRIVETVSEM">>, <<"!!!", "???">>,
          <<"kupi", "skidka">>, <<"kupi", "dengi">>,
          <<"!!!", "@name", "dengi">>,
          <<"aaaaaa", "aaaaaa", "aaaaaa", "aaaaaa", "kupi">>,
          <<"!!!!!!", "???", "bit.ly">>}

VARIABLES
    is_sending,          \* self.is_sending
    notification_count,  \* self.notification_count
    stats,               \* self.stats: total_sent, total_failed
    batch_size,          \* self.batch_size
    active,              \* users table: ids with is_active = 1
    pc,                  \* per invocation: the await it is suspended at
    users,               \* per invocation: local users
    phrase,              \* per invocation: local phrase
    batches,             \* per invocation: local batches
    batch_num,           \* per invocation: loop variable batch_num
    sent_count,          \* per invocation: local sent_count
    failed_count,        \* per invocation: local failed_count
    task,                \* per recipient: the live _send_to_user task
    outcome,             \* log: what the latest started run reported
    sleeps,              \* history: asyncio.sleep(batch_delay) calls of the run
    returned,            \* history: tasks of the run that returned True / not
    scheduler_running,   \* self.scheduler.running
    jobs,                \* self.scheduler.get_jobs(): job id -> its trigger
    reply,               \* log: what the latest call from the handlers returned
    blocked_users,       \* security_manager.blocked_users
    user_actions,        \* security_manager.user_actions: per user, a list
    clock,               \* datetime.now(), in minutes
    verdict,             \* log: what the latest auto_moderate_phrase did
    admit,               \* log: what the latest check_rate_limit returned
    scored               \* log: the latest text scored and the patterns found

vars == <<is_sending, notification_count, stats, batch_size, active, pc, users,
          phrase, batches, batch_num, sent_count, failed_count, task, outcome,
          sleeps, returned, scheduler_running, jobs, reply, blocked_users,
          user_actions, clock, verdict, admit, scored>>

\* the job store and what the handlers were answered
admin == <<scheduler_running, jobs, reply>>
\* the security manager
security == <<blocked_users, user_actions, clock, verdict, admit, scored>>

locals == <<users, phrase, batches, batch_num, sent_count, failed_count>>
shared == <<is_sending, notification_count, stats>>

\* ------------------------------------------------------- pure functions

\* the rows of "SELECT user_id FROM users WHERE is_active = 1", in key order
RECURSIVE SortedSeq(_)
SortedSeq(S) ==
    IF S = {} THEN <<>>
    ELSE LET m == CHOOSE x \in S : \A y \in S : x <= y
         IN  <<m>> \o SortedSeq(S \ {m})

\* range(0, n, step) as a sequence of start offsets
RECURSIVE Range(_, _, _)
Range(i, n, step) ==
    IF i >= n THEN <<>> ELSE <<i>> \o Range(i + step, n, step)

\* Python slice s[i:j] for 0 <= i, clamped to the length of s
Slice(s, i, j) == SubSeq(s, i + 1, Min(j, Len(s)))

\* variant: range(0, len(users) - batch_size + 1, batch_size), a short last
\* batch is never formed
MakeBatches_full_only(us, b) ==
    LET starts == Range(0, Len(us) - b + 1, b)
    IN  [k \in 1..Len(starts) |-> Slice(us, starts[k], starts[k] + b)]

\* [users[i:i + batch_size] for i in range(0, len(users), batch_size)]
MakeBatches(us, b) ==
    LET starts == Range(0, Len(us), b)
    IN  [k \in 1..Len(starts) |-> Slice(us, starts[k], starts[k] + b)]

SeqToSet(s) == {s[i] : i \in 1..Len(s)}

\* ------------------------------------------------------------- task table
\* st: the await the task is suspended at; first/second: what the transport
\* answered to the first send and to the retry; calls: bot.send_message calls
\* issued; marks: mark_user_inactive calls; nlog: statuses passed to
\* log_notification; result: what gather collects for the task
NoTask == [st |-> "none", text |-> "none", first |-> "none", second |-> "none",
           blocked |-> FALSE, wait_time |-> 0, calls |-> 0, marks |-> 0,
           nlog |-> <<>>, result |-> "none"]

\* asyncio.create_task(self._send_to_user(user_id, phrase)): the task runs up
\* to its first await, the first bot.send_message call
NewTask(p) == [NoTask EXCEPT !.st = "send", !.text = p, !.calls = 1]

NoOutcome(k) == [kind |-> k, recipients |-> 0, nbatches |-> 0, sent |-> 0,
                 failed |-> 0]

\* __init__ of the scheduler, and the users table as it is found
EngineInit ==
    /\ is_sending = FALSE
    /\ notification_count = 0
    /\ stats = [total_sent |-> 0, total_failed |-> 0, last_batch_time |-> "None"]
    /\ batch_size \in 1..MaxBatchSize
    /\ active \in SUBSET Users
    /\ pc = [t \in Triggers |-> "idle"]
    /\ users = [t \in Triggers |-> <<>>]
    /\ phrase = [t \in Triggers |-> "none"]
    /\ batches = [t \in Triggers |-> <<>>]
    /\ batch_num = [t \in Triggers |-> 0]
    /\ sent_count = [t \in Triggers |-> 0]
    /\ failed_count = [t \in Triggers |-> 0]
    /\ task = [u \in Users |-> NoTask]
    /\ outcome = NoOutcome("none")
    /\ sleeps = 0
    /\ returned = [true |-> 0, other |-> 0]

\* op: the method called, at: datetime.now() when it read the clock, value:
\* what it returned, as a sequence of records
NoReply == [op |-> "none", at |-> Time(0, 0), value |-> <<>>]

\* the draw that takes the first brackets at their first minute
FirstDraw == [i \in DailyJobs |-> CronTrigger("daily", i, TimeSlots[i][1], 0)]

\* start() has installed the daily jobs and the retry job and started the
\* scheduler, and a test broadcast is scheduled.  No step of a broadcast reads
\* the time of a trigger, so the broadcasts are explored from one draw;
\* JobsInit takes every draw.
StartedInit ==
    /\ scheduler_running = TRUE
    /\ jobs = [j \in JobIds |->
                 IF j = TestJob THEN CronTrigger("test", 0, 8, 31)
                 ELSE IF j = RetryJob THEN RetryTrigger
                 ELSE FirstDraw[j]]
    /\ reply = NoReply

NoVerdict == [user |-> 0, allowed |-> TRUE, reason |-> "", suspicion_level |-> 0,
              auto_block |-> FALSE, trail |-> <<>>]
NoAdmit == [user |-> 0, type |-> "", value |-> TRUE]
NoScore == [text |-> <<>>, found |-> <<>>]

\* SecurityManager.__init__ with no blocked_users.txt: nobody is blocked, no
\* action is on record
SecurityInit ==
    /\ blocked_users = {}
    /\ user_actions = [u \in Subjects |-> <<>>]
    /\ clock = 0
    /\ verdict = NoVerdict
    /\ admit = NoAdmit
    /\ scored = NoScore

Init ==
    /\ EngineInit
    /\ StartedInit
    /\ SecurityInit

\* ------------------------------------------------ send_batch_notification

\* variant: the flag is not consulted
AlreadySending_unchecked == FALSE

\* line 109: if self.is_sending
AlreadySending == is_sending

\* the invocation returns: its locals are gone
Return(t) ==
    /\ pc' = [pc EXCEPT ![t] = "idle"]
    /\ users' = [users EXCEPT ![t] = <<>>]
    /\ phrase' = [phrase EXCEPT ![t] = "none"]
    /\ batches' = [batches EXCEPT ![t] = <<>>]
    /\ batch_num' = [batch_num EXCEPT ![t] = 0]
    /\ sent_count' = [sent_count EXCEPT ![t] = 0]
    /\ failed_count' = [failed_count EXCEPT ![t] = 0]

\* variant: the flag is cleared on the normal path only, not in a finally
Finally_flag_kept(t) ==
    /\ UNCHANGED is_sending
    /\ Return(t)

\* finally: self.is_sending = False, then return
Finally(t) ==
    /\ is_sending' = FALSE
    /\ Return(t)

\* the job's trigger fires: the scheduler submits one instance of the job
\* (max_instances=1), whose coroutine begins at the next turn of the loop
Fire(t) ==
    /\ scheduler_running
    /\ jobs[t] # NoJob
    /\ pc[t] = "idle"
    /\ pc' = [pc EXCEPT ![t] = "fired"]
    /\ UNCHANGED <<shared, batch_size, admin, security, active, locals, task, outcome, sleeps,
                   returned>>

\* variant: the test sits inside the try, so the early return runs finally
Skip_in_try(t) ==
    /\ pc[t] = "fired"
    /\ AlreadySending
    /\ Finally(t)
    /\ UNCHANGED <<notification_count, stats, batch_size, admin, security, active, task, outcome,
                   sleeps, returned>>

\* the coroutine begins while a broadcast is in progress: warning, return
Skip(t) ==
    /\ pc[t] = "fired"
    /\ AlreadySending
    /\ Return(t)
    /\ UNCHANGED <<shared, batch_size, admin, security, active, task, outcome, sleeps, returned>>

\* the coroutine begins in Idle: the flag is taken, get_active_users is awaited
Start(t) ==
    /\ pc[t] = "fired"
    /\ ~AlreadySending
    /\ notification_count < MaxRuns
    /\ is_sending' = TRUE
    /\ pc' = [pc EXCEPT ![t] = "get_active_users"]
    /\ outcome' = NoOutcome("running")
    /\ sleeps' = 0
    /\ returned' = [true |-> 0, other |-> 0]
    /\ UNCHANGED <<notification_count, stats, batch_size, admin, security, active, locals, task>>

\* variant: the query has no WHERE is_active = 1
GetActiveUsers_all_rows(t, ok) ==
    /\ pc[t] = "get_active_users"
    /\ users' = [users EXCEPT ![t] = IF ok THEN SortedSeq(Users) ELSE <<>>]
    /\ pc' = [pc EXCEPT ![t] = "get_random_phrase"]
    /\ UNCHANGED <<shared, batch_size, admin, security, active, phrase, batches, batch_num,
                   sent_count, failed_count, task, outcome, sleeps,
                   returned>>

\* get_active_users answers: the active rows, or [] when the query failed
GetActiveUsers(t, ok) ==
    /\ pc[t] = "get_active_users"
    /\ users' = [users EXCEPT ![t] = IF ok THEN SortedSeq(active) ELSE <<>>]
    /\ pc' = [pc EXCEPT ![t] = "get_random_phrase"]
    /\ UNCHANGED <<shared, batch_size, admin, security, active, phrase, batches, batch_num,
                   sent_count, failed_count, task, outcome, sleeps,
                   returned>>

\* variant: the run is numbered before the recipients are looked at
NoUsers_counted(t) ==
    /\ pc[t] = "get_random_phrase"
    /\ users[t] = <<>>
    /\ notification_count < MaxRuns
    /\ notification_count' = notification_count + 1
    /\ Finally(t)
    /\ outcome' = NoOutcome("no_users")
    /\ UNCHANGED <<stats, batch_size, admin, security, active, task,
                   sleeps, returned>>

\* get_random_phrase answers; if not users: return
NoUsers(t) ==
    /\ pc[t] = "get_random_phrase"
    /\ users[t] = <<>>
    /\ Finally(t)
    /\ outcome' = NoOutcome("no_users")
    /\ UNCHANGED <<notification_count, stats, batch_size, admin, security, active, task,
                   sleeps, returned>>

\* get_random_phrase answers an empty text; if not phrase: return
NoPhrase(t) ==
    /\ pc[t] = "get_random_phrase"
    /\ users[t] # <<>>
    /\ "" \in PhraseResults
    /\ Finally(t)
    /\ outcome' = NoOutcome("no_phrase")
    /\ UNCHANGED <<notification_count, stats, batch_size, admin, security, active, task,
                   sleeps, returned>>

\* variant: only the first member's delivery is started
CreateTasks_first_only(batch, p) ==
    task' = [u \in Users |->
               IF u = Head(batch) THEN NewTask(p)
               ELSE IF task[u].st = "done" THEN NoTask ELSE task[u]]

\* _send_batch up to its await: one task per member of the batch; the tasks
\* of a batch already gathered are gone
CreateTasks(batch, p) ==
    task' = [u \in Users |->
               IF u \in SeqToSet(batch) THEN NewTask(p)
               ELSE IF task[u].st = "done" THEN NoTask ELSE task[u]]

\* the run proper begins: counter, batches, the first batch is handed out
Dispatch(t, p) ==
    /\ pc[t] = "get_random_phrase"
    /\ users[t] # <<>>
    /\ p # ""
    /\ LET bs == MakeBatches(users[t], batch_size)
       IN  /\ batches' = [batches EXCEPT ![t] = bs]
           /\ CreateTasks(bs[1], p)
           /\ outcome' = [outcome EXCEPT !.recipients = Len(users[t]),
                                         !.nbatches = Len(bs)]
    /\ phrase' = [phrase EXCEPT ![t] = p]
    /\ notification_count' = notification_count + 1
    /\ batch_num' = [batch_num EXCEPT ![t] = 1]
    /\ sent_count' = [sent_count EXCEPT ![t] = 0]
    /\ failed_count' = [failed_count EXCEPT ![t] = 0]
    /\ pc' = [pc EXCEPT ![t] = "gather"]
    /\ UNCHANGED <<is_sending, stats, batch_size, admin, security, active, users, sleeps,
                   returned>>

CurrentBatch(t) == SeqToSet(batches[t][batch_num[t]])

\* variant: the tasks are created but not awaited
BatchDone_no_wait(t) == TRUE

\* asyncio.gather(*tasks, return_exceptions=True) returns
BatchDone(t) == \A u \in CurrentBatch(t) : task[u].st = "done"

\* the result loop of _send_batch: an exception or a falsy result is a failure
BatchSent(t) == Cardinality({u \in CurrentBatch(t) : task[u].result = "True"})
\* variant: an exception object among the results is not counted
BatchFailed_false_only(t) ==
    Cardinality({u \in CurrentBatch(t) : task[u].result = "False"})

BatchFailed(t) == Cardinality({u \in CurrentBatch(t) : task[u].result # "True"})

\* the results are consumed, the finished tasks are dropped
DropTasks == task' = [u \in Users |-> IF task[u].st = "done" THEN NoTask ELSE task[u]]

\* variant: the cooldown follows every batch
SleepBetween_always(t) == batch_num[t] <= Len(batches[t])

\* line 153: if batch_num < len(batches)
SleepBetween(t) == batch_num[t] < Len(batches[t])

\* lines 157-179: lifetime counters, result log, finally
Complete(t, s, f) ==
    /\ stats' = [total_sent |-> stats.total_sent + s,
                 total_failed |-> stats.total_failed + f,
                 last_batch_time |-> "elapsed"]
    /\ outcome' = [outcome EXCEPT !.kind = "completed", !.sent = s, !.failed = f]
    /\ Finally(t)

\* _send_batch returns its two counts to the loop body
SendBatchDone(t) ==
    /\ pc[t] = "gather"
    /\ BatchDone(t)
    /\ DropTasks
    /\ LET s == sent_count[t] + BatchSent(t)
           f == failed_count[t] + BatchFailed(t)
       IN  IF SleepBetween(t)
           THEN /\ sent_count' = [sent_count EXCEPT ![t] = s]
                /\ failed_count' = [failed_count EXCEPT ![t] = f]
                /\ pc' = [pc EXCEPT ![t] = "sleep"]
                /\ sleeps' = sleeps + 1
                /\ UNCHANGED <<shared, users, phrase, batches, batch_num,
                               outcome>>
           ELSE /\ Complete(t, s, f)
                /\ UNCHANGED <<notification_count, sleeps>>
    /\ UNCHANGED <<batch_size, admin, security, active, returned>>

\* variant: the phrase is fetched again for every batch after the first
BatchDelayDone_new_phrase(t) ==
    /\ pc[t] = "sleep"
    /\ IF batch_num[t] < Len(batches[t])
       THEN /\ batch_num' = [batch_num EXCEPT ![t] = @ + 1]
            /\ CreateTasks(batches[t][batch_num[t] + 1], DefaultPhrase)
            /\ pc' = [pc EXCEPT ![t] = "gather"]
            /\ UNCHANGED <<shared, users, phrase, batches, sent_count,
                           failed_count, outcome>>
       ELSE /\ Complete(t, sent_count[t], failed_count[t])
            /\ UNCHANGED <<notification_count, task>>
    /\ UNCHANGED <<batch_size, admin, security, active, sleeps, returned>>

\* asyncio.sleep(self.batch_delay) is over: next iteration, or the loop ends
BatchDelayDone(t) ==
    /\ pc[t] = "sleep"
    /\ IF batch_num[t] < Len(batches[t])
       THEN /\ batch_num' = [batch_num EXCEPT ![t] = @ + 1]
            /\ CreateTasks(batches[t][batch_num[t] + 1], phrase[t])
            /\ pc' = [pc EXCEPT ![t] = "gather"]
            /\ UNCHANGED <<shared, users, phrase, batches, sent_count,
                           failed_count, outcome>>
       ELSE /\ Complete(t, sent_count[t], failed_count[t])
            /\ UNCHANGED <<notification_count, task>>
    /\ UNCHANGED <<batch_size, admin, security, active, sleeps, returned>>

\* except Exception: an unexpected failure in the loop body (after a batch
\* was gathered, or out of the cooldown sleep) is logged; finally
RunFault(t) ==
    /\ \/ pc[t] = "gather" /\ BatchDone(t)
       \/ pc[t] = "sleep"
    /\ DropTasks
    /\ Finally(t)
    /\ outcome' = [outcome EXCEPT !.kind = "fault"]
    /\ UNCHANGED <<notification_count, stats, batch_size, admin, security, active, sleeps,
                   returned>>

\* ------------------------------------------------------------ _send_to_user

frame == <<shared, batch_size, admin, security, pc, locals, outcome, sleeps>>

\* variant: the status argument is ignored, every row says 'sent'
Logged_always_sent(tk, status) == [tk EXCEPT !.nlog = Append(@, "sent")]

\* log_notification(user_id, 0, status): one row in notification_logs
Logged(tk, status) == [tk EXCEPT !.nlog = Append(@, status)]

\* the task returns (or raises): result is what gather collects for it
Returned(tk, r) == [tk EXCEPT !.st = "done", !.result = r, !.wait_time = 0]

\* history of the run: one more task is over
Tally(r) ==
    returned' = IF r = "True" THEN [returned EXCEPT !.true = @ + 1]
                ELSE [returned EXCEPT !.other = @ + 1]

\* variant: the UPDATE is missing
MarkUserInactive_missing(u) == UNCHANGED active

\* mark_user_inactive(user_id): UPDATE users SET is_active = 0
MarkUserInactive(u) == active' = active \ {u}

\* send_message succeeds: the 'sent' row is written, pacing sleep begins
SendOk(u) ==
    /\ task[u].st = "send"
    /\ task' = [task EXCEPT ![u] =
                  [Logged(@, "sent") EXCEPT !.first = "ok", !.st = "pacing"]]
    /\ UNCHANGED <<frame, active, returned>>

\* asyncio.sleep(self.message_delay) is over: return True
PacingDone(u) ==
    /\ task[u].st = "pacing"
    /\ task' = [task EXCEPT ![u] = Returned(@, "True")]
    /\ Tally("True")
    /\ UNCHANGED <<frame, active>>

\* except Forbidden: the recipient blocked the bot
SendForbidden(u) ==
    /\ task[u].st = "send"
    /\ MarkUserInactive(u)
    /\ task' = [task EXCEPT ![u] =
                  [Returned(@, "False") EXCEPT !.first = "Forbidden",
                                               !.marks = @ + 1]]
    /\ Tally("False")
    /\ UNCHANGED frame

\* variant: the sleep lasts as long as the server asked
SendRetryAfter_uncapped(u, T) ==
    /\ task[u].st = "send"
    /\ task' = [task EXCEPT ![u] =
                  [@ EXCEPT !.first = "RetryAfter",
                            !.wait_time = T,
                            !.st = "backoff"]]
    /\ UNCHANGED <<frame, active, returned>>

\* except RetryAfter: wait_time = min(e.retry_after, 60), then sleep
SendRetryAfter(u, T) ==
    /\ task[u].st = "send"
    /\ task' = [task EXCEPT ![u] =
                  [@ EXCEPT !.first = "RetryAfter",
                            !.wait_time = Min(T, RetryAfterCap),
                            !.st = "backoff"]]
    /\ UNCHANGED <<frame, active, returned>>

\* asyncio.sleep(wait_time) is over: the second send_message call is made
BackoffDone(u) ==
    /\ task[u].st = "backoff"
    /\ task' = [task EXCEPT ![u] =
                  [@ EXCEPT !.st = "retry", !.calls = @ + 1, !.wait_time = 0]]
    /\ UNCHANGED <<frame, active, returned>>

\* an exception raised by the handler itself (lines 231-233 are outside the
\* inner try) leaves the task: gather collects the exception object
BackoffRaises(u) ==
    /\ task[u].st = "backoff"
    /\ task' = [task EXCEPT ![u] = Returned(@, "Exception")]
    /\ Tally("Exception")
    /\ UNCHANGED <<frame, active>>

\* the retry succeeds: 'sent' row, return True
RetryOk(u) ==
    /\ task[u].st = "retry"
    /\ task' = [task EXCEPT ![u] =
                  [Returned(Logged(@, "sent"), "True") EXCEPT !.second = "ok"]]
    /\ Tally("True")
    /\ UNCHANGED <<frame, active>>

\* variant: a failed retry backs off and tries again
RetryFails_again(u, e) ==
    /\ task[u].st = "retry"
    /\ task' = [task EXCEPT ![u] =
                  [@ EXCEPT !.second = e, !.wait_time = 1, !.st = "backoff"]]
    /\ UNCHANGED <<frame, active, returned>>

\* the retry fails with whatever exception e: 'failed' row, return False
RetryFails(u, e) ==
    /\ task[u].st = "retry"
    /\ task' = [task EXCEPT ![u] =
                  [Returned(Logged(@, "failed"), "False") EXCEPT !.second = e]]
    /\ Tally("False")
    /\ UNCHANGED <<frame, active>>

\* except ChatMigrated: logged to the console only, return False
SendChatMigrated(u) ==
    /\ task[u].st = "send"
    /\ task' = [task EXCEPT ![u] =
                  [Returned(@, "False") EXCEPT !.first = "ChatMigrated"]]
    /\ Tally("False")
    /\ UNCHANGED <<frame, active>>

\* except TelegramError: 'failed' row; "blocked" in the text deactivates
SendTelegramError(u, b) ==
    /\ task[u].st = "send"
    /\ task' = [task EXCEPT ![u] =
                  [Returned(Logged(@, "failed"), "False")
                     EXCEPT !.first = "TelegramError", !.blocked = b,
                            !.marks = IF b THEN @ + 1 ELSE @]]
    /\ IF b THEN MarkUserInactive(u) ELSE UNCHANGED active
    /\ Tally("False")
    /\ UNCHANGED frame

\* except Exception: 'failed' row, return False
SendException(u) ==
    /\ task[u].st = "send"
    /\ task' = [task EXCEPT ![u] =
                  [Returned(Logged(@, "failed"), "False")
                     EXCEPT !.first = "Exception"]]
    /\ Tally("False")
    /\ UNCHANGED <<frame, active>>

\* what a failed retry can be answered with
RetryErrors == {"Forbidden", "Exception"}

\* ------------------------------------------------- the scheduler's jobs

\* variant: the id filter is missing, every job is removed
RemoveDaily_all(js) == [j \in JobIds |-> NoJob]

\* for job in get_jobs(): if job.id.startswith("daily_notification"): remove
RemoveDaily(js) == [j \in JobIds |-> IF j \in DailyJobs THEN NoJob ELSE js[j]]

\* schedule_daily_notifications with the draw d: add_job(..., id =
\* daily_notification_i, replace_existing=True) for each drawn bracket
ScheduleDailyNotifications(js, d) ==
    [j \in JobIds |-> IF j \in DOMAIN d THEN d[j] ELSE js[j]]

\* reschedule_notifications: no await between the removals and the add_job
\* calls, so no job runs in between
Reschedule(d) ==
    /\ jobs' = ScheduleDailyNotifications(RemoveDaily(jobs), d)
    /\ UNCHANGED <<shared, batch_size, security, active, pc, locals, task, outcome,
                   sleeps, returned, scheduler_running, reply>>

\* schedule_test_notification(minutes_from_now): a CronTrigger on the hour
\* and minute of now + minutes_from_now; returns strftime('%H:%M')
ScheduleTestNotification(now, delay) ==
    LET test_time == FromMinutes(ToMinutes(now) + delay)
    IN  /\ jobs' = [jobs EXCEPT ![TestJob] =
                      CronTrigger("test", 0, test_time.hour, test_time.minute)]
        /\ reply' = [op |-> "schedule_test_notification", at |-> now,
                     value |-> <<test_time>>]
        /\ UNCHANGED <<shared, batch_size, security, active, pc, locals, task, outcome,
                       sleeps, returned, scheduler_running>>

\* "HH:MM" strings compare as (hour, minute) pairs: both fields are two
\* digits, zero padded
StrLeq(a, b) == a.hour < b.hour \/ (a.hour = b.hour /\ a.minute <= b.minute)

RECURSIVE Insert(_, _)
Insert(x, s) ==
    IF s = <<>> THEN <<x>>
    ELSE IF StrLeq(x, Head(s)) THEN <<x>> \o s
    ELSE <<Head(s)>> \o Insert(x, Tail(s))

\* sorted(next_times): the strings in ascending order
RECURSIVE Sorted(_)
Sorted(s) == IF s = <<>> THEN <<>> ELSE Insert(Head(s), Sorted(Tail(s)))

\* job.id.startswith("daily_notification") or "test" in job.id
Listed(js) == {j \in JobIds : js[j] # NoJob /\ (j \in DailyJobs \/ j = TestJob)}

\* job.next_run_time.strftime("%H:%M"): the day of the next run is dropped
Strftime(trigger) == Time(trigger.hour, trigger.minute)

\* next_times before the sort, one string per listed job
NextTimes(js) ==
    LET ids == SortedSeq(Listed(js))
    IN  [k \in 1..Len(ids) |-> Strftime(js[ids[k]])]

\* get_next_notifications; a scheduler that is not running has no job with a
\* next_run_time, and the answer is []
GetNextNotifications(now) ==
    /\ reply' = [op |-> "get_next_notifications", at |-> now,
                 value |-> IF scheduler_running THEN Sorted(NextTimes(jobs))
                           ELSE <<>>]
    /\ UNCHANGED <<shared, batch_size, security, active, pc, locals, task, outcome,
                   sleeps, returned, scheduler_running, jobs>>

\* get_stats: a dict of the counters
GetStats ==
    /\ reply' = [op |-> "get_stats", at |-> NoReply.at,
                 value |-> <<[total_notifications |-> notification_count,
                              scheduled_jobs |->
                                  Cardinality({j \in DailyJobs : jobs[j] # NoJob}),
                              is_running |-> scheduler_running,
                              is_sending |-> is_sending,
                              total_sent |-> stats.total_sent,
                              total_failed |-> stats.total_failed,
                              last_batch_time |-> stats.last_batch_time,
                              batch_size |-> batch_size]>>]
    /\ UNCHANGED <<shared, batch_size, security, active, pc, locals, task, outcome,
                   sleeps, returned, scheduler_running, jobs>>

\* what the transport does to the one delivery of send_test_notification:
\* the answers of _send_to_user, and "raise" for an exception that leaves it;
\* a retry that fails is answered Forbidden or something else
TestAnswers == {"ok", "Forbidden", "RetryAfter_ok", "RetryAfter_fail",
                "RetryAfter_Forbidden",
                "ChatMigrated", "blocked", "TelegramError", "Exception",
                "raise"}

\* variant: a test delivery is counted as a sent notification
SendTestNotification_counted(u, a) ==
    /\ active' = IF a \in {"Forbidden", "blocked"} THEN active \ {u} ELSE active
    /\ stats' = [stats EXCEPT !.total_sent = IF a = "ok" THEN 1 ELSE @]
    /\ reply' = [op |-> "send_test_notification", at |-> NoReply.at,
                 value |-> <<[success |-> a \in {"ok", "RetryAfter_ok"}]>>]
    /\ UNCHANGED <<is_sending, notification_count, batch_size, security, pc, locals,
                   task, outcome, sleeps, returned, scheduler_running, jobs>>

\* send_test_notification(user_id): one _send_to_user outside any run; it
\* touches the users table (Forbidden, "blocked") and returns success
SendTestNotification(u, a) ==
    /\ active' = IF a \in {"Forbidden", "blocked"} THEN active \ {u} ELSE active
    /\ reply' = [op |-> "send_test_notification", at |-> NoReply.at,
                 value |-> <<[success |-> a \in {"ok", "RetryAfter_ok"}]>>]
    /\ UNCHANGED <<shared, batch_size, security, pc, locals, task, outcome, sleeps,
                   returned, scheduler_running, jobs>>

\* a call of send_test_notification is at one of its awaits
TestPending == reply.op = "send_test_notification" /\ reply.value = <<>>

\* send_test_notification is called and awaits get_random_phrase; the
\* application handles one /test_notification at a time
TestSendBegin ==
    /\ ~TestPending
    /\ reply' = [op |-> "send_test_notification", at |-> NoReply.at,
                 value |-> <<>>]
    /\ UNCHANGED <<shared, batch_size, security, active, pc, locals, task,
                   outcome, sleeps, returned, scheduler_running, jobs>>

\* the delivery of the test is answered and send_test_notification returns
TestSendEnd(u, a) ==
    /\ TestPending
    /\ SendTestNotification(u, a)

\* stop: scheduler.shutdown(wait=False).  The job store is emptied and no
\* trigger fires any more.  What happens to the job instances already
\* submitted is the executor's doing: it leaves them alone (cancel = FALSE),
\* or it cancels their futures (cancel = TRUE), and then CancelledError ends
\* each invocation at its await: it passes `except Exception`, the finally
\* clears the flag, and the gathered deliveries are cancelled with it.
\* A scheduler that is not running raises, which stop logs.
Stop(cancel) ==
    IF ~scheduler_running THEN UNCHANGED vars
    ELSE /\ scheduler_running' = FALSE
         /\ jobs' = [j \in JobIds |-> NoJob]
         /\ IF cancel /\ \E t \in Triggers : pc[t] # "idle"
            THEN /\ pc' = [t \in Triggers |-> "idle"]
                 /\ users' = [t \in Triggers |-> <<>>]
                 /\ phrase' = [t \in Triggers |-> "none"]
                 /\ batches' = [t \in Triggers |-> <<>>]
                 /\ batch_num' = [t \in Triggers |-> 0]
                 /\ sent_count' = [t \in Triggers |-> 0]
                 /\ failed_count' = [t \in Triggers |-> 0]
                 /\ is_sending' = FALSE
                 /\ task' = [u \in Users |-> NoTask]
                 /\ outcome' = IF outcome.kind = "running"
                               THEN [outcome EXCEPT !.kind = "cancelled"]
                               ELSE outcome
            ELSE UNCHANGED <<is_sending, pc, locals, task, outcome>>
         /\ UNCHANGED <<notification_count, stats, batch_size, security, active, sleeps,
                        returned, reply>>

\* -------------------------------------------------------- SecurityManager

engine == <<shared, batch_size, active, pc, locals, task, outcome, sleeps,
            returned>>

\* is_user_blocked(user_id)
IsUserBlocked(u) == u \in blocked_users

\* variant: an action as old as the window is still counted
Recent_inclusive(u, type, window) ==
    {i \in 1..Len(user_actions[u]) :
        /\ user_actions[u][i].type = type
        /\ user_actions[u][i].time >= clock - window}

\* [a for a in user_actions if a['type'] == type and a['time'] > cutoff],
\* with cutoff = now - window
Recent(u, type, window) ==
    {i \in 1..Len(user_actions[u]) :
        /\ user_actions[u][i].type = type
        /\ user_actions[u][i].time > clock - window}

\* the 'phrase' actions of the user with a['time'] > cutoff
RecentPhrases(u) == Recent(u, "phrase", DayMinutes)

\* variant: the call is refused only above the limit
CheckPhraseRateLimit_above(u) ==
    ~(Cardinality(RecentPhrases(u)) > RateLimits.phrases_per_day)

\* check_rate_limit(user_id, 'phrase')
CheckPhraseRateLimit(u) ==
    ~(Cardinality(RecentPhrases(u)) >= RateLimits.phrases_per_day)

\* the values of action_type: the three the code knows and one it does not
ActionTypes == {"message", "phrase", "command", "other"}

\* check_rate_limit(user_id, action_type)
CheckRateLimit(u, type) ==
    IF type = "message"
    THEN ~(Cardinality(Recent(u, "message", HourMinutes))
              >= RateLimits.messages_per_hour)
    ELSE IF type = "phrase"
    THEN CheckPhraseRateLimit(u)
    ELSE IF type = "command"
    THEN ~(Cardinality(Recent(u, "command", OneMinute))
              >= RateLimits.commands_per_minute)
    ELSE TRUE

\* variant: the list is rebuilt from the new record alone
LogUserAction_overwrite(acts, type) ==
    <<[type |-> type, time |-> clock]>>

\* log_user_action: append, then keep what is younger than seven days
LogUserAction(acts, type) ==
    SelectSeq(Append(acts, [type |-> type, time |-> clock]),
              LAMBDA a : a.time > clock - WeekMinutes)

Verdict(u, allowed, reason, level, auto_block, trail) ==
    [user |-> u, allowed |-> allowed, reason |-> reason,
     suspicion_level |-> level, auto_block |-> auto_block, trail |-> trail]

\* variant: a text with two patterns is blocked like one with three
ScoreAndLog_review_blocks(u, text, trail) ==
    LET level == Len(CheckSuspiciousContent(text))
        steps == trail \o <<"check_suspicious_content", "log_user_action">>
    IN  IF level >= 2
        THEN Verdict(u, FALSE, "suspicious", level, TRUE, steps)
        ELSE Verdict(u, TRUE, "", level, FALSE, steps)

\* variant: only an accepted phrase is put on record
ScoreAndLog_accepted_only(u, text, trail) ==
    LET level == Len(CheckSuspiciousContent(text))
        scoring == trail \o <<"check_suspicious_content">>
    IN  IF level >= 3
        THEN Verdict(u, FALSE, "suspicious", level, TRUE, scoring)
        ELSE IF level >= 2
        THEN Verdict(u, FALSE, "manual", level, FALSE, scoring)
        ELSE Verdict(u, TRUE, "", level, FALSE,
                     scoring \o <<"log_user_action">>)

\* variant: a phrase held for manual review is answered as allowed
ScoreAndLog_review_allowed(u, text, trail) ==
    LET level == Len(CheckSuspiciousContent(text))
        steps == trail \o <<"check_suspicious_content", "log_user_action">>
    IN  IF level >= 3
        THEN Verdict(u, FALSE, "suspicious", level, TRUE, steps)
        ELSE IF level >= 2
        THEN Verdict(u, TRUE, "manual", level, FALSE, steps)
        ELSE Verdict(u, TRUE, "", level, FALSE, steps)

\* lines 212-228: the content is scored, the action is put on record
ScoreAndLog(u, text, trail) ==
    LET level == Len(CheckSuspiciousContent(text))
        steps == trail \o <<"check_suspicious_content", "log_user_action">>
    IN  IF level >= 3
        THEN Verdict(u, FALSE, "suspicious", level, TRUE, steps)
        ELSE IF level >= 2
        THEN Verdict(u, FALSE, "manual", level, FALSE, steps)
        ELSE Verdict(u, TRUE, "", level, FALSE, steps)

\* variant: the rate limit is tested before the block list
Moderate_rate_first(u, text) ==
    IF ~CheckPhraseRateLimit(u)
    THEN Verdict(u, FALSE, "rate_limit", 3, FALSE, <<"check_rate_limit">>)
    ELSE IF IsUserBlocked(u)
    THEN Verdict(u, FALSE, "blocked", 0, FALSE,
                 <<"check_rate_limit", "is_user_blocked">>)
    ELSE ScoreAndLog(u, text, <<"check_rate_limit", "is_user_blocked">>)

\* variant: the rejected attempt is put on record too
Moderate_rejected_logged(u, text) ==
    IF IsUserBlocked(u)
    THEN Verdict(u, FALSE, "blocked", 0, FALSE, <<"is_user_blocked">>)
    ELSE IF ~CheckPhraseRateLimit(u)
    THEN Verdict(u, FALSE, "rate_limit", 3, FALSE,
                 <<"is_user_blocked", "check_rate_limit", "log_user_action">>)
    ELSE ScoreAndLog(u, text, <<"is_user_blocked", "check_rate_limit">>)

\* auto_moderate_phrase: the result dict, and in trail the calls it made
Moderate(u, text) ==
    IF IsUserBlocked(u)
    THEN Verdict(u, FALSE, "blocked", 0, FALSE, <<"is_user_blocked">>)
    ELSE IF ~CheckPhraseRateLimit(u)
    THEN Verdict(u, FALSE, "rate_limit", 3, FALSE,
                 <<"is_user_blocked", "check_rate_limit">>)
    ELSE ScoreAndLog(u, text, <<"is_user_blocked", "check_rate_limit">>)

AutoModeratePhrase(u, text) ==
    LET result == Moderate(u, text)
    IN  /\ verdict' = result
        /\ scored' =
              IF "check_suspicious_content" \in SeqToSet(result.trail)
              THEN [text |-> text, found |-> CheckSuspiciousContent(text)]
              ELSE scored
        /\ user_actions' =
              IF "log_user_action" \in SeqToSet(result.trail)
              THEN [user_actions EXCEPT ![u] = LogUserAction(@, "phrase")]
              ELSE user_actions
        /\ UNCHANGED <<engine, admin, blocked_users, clock, admit>>

\* a call of check_rate_limit(user_id, action_type) by itself
CheckRateLimitCall(u, type) ==
    /\ admit' = [user |-> u, type |-> type, value |-> CheckRateLimit(u, type)]
    /\ UNCHANGED <<engine, admin, blocked_users, user_actions, clock, verdict,
                   scored>>

\* a call of check_suspicious_content(text) by itself
ScoreText(text) ==
    /\ scored' = [text |-> text, found |-> CheckSuspiciousContent(text)]
    /\ UNCHANGED <<engine, admin, blocked_users, user_actions, clock, verdict,
                   admit>>

\* a call of check_suspicious_content on the latest text with one more piece,
\* typed in front of it or after it
ScoreLonger(piece, front) ==
    LET text == IF front THEN <<piece>> \o scored.text
                ELSE Append(scored.text, piece)
    IN  ScoreText(text)

\* the link check of process_user_phrase: \w+\.\w+ finds the short link
HasLink(text) == \E i \in 1..Len(text) : text[i] = "bit.ly"

\* variant: the message is put on record before the limit is checked
TextMessageHandler_log_first(u, text, waiting, replied) ==
    IF IsUserBlocked(u)
    THEN UNCHANGED vars
    ELSE /\ admit' = [user |-> u, type |-> "message",
                      value |-> CheckRateLimit(u, "message")]
         /\ user_actions' =
               [user_actions EXCEPT ![u] = LogUserAction(@, "message")]
         /\ UNCHANGED <<engine, admin, blocked_users, clock, verdict, scored>>

\* text_message_handler, and process_user_phrase when the user's state is
\* waiting_phrase.  `waiting`: the state is waiting_phrase and the text passes
\* the length and stop-word checks; `replied`: the awaited reply_text
\* returned (it raises when the transport fails, which ends the handler).
\* The application handles one update at a time, so nothing runs in between.
TextMessageHandler(u, text, waiting, replied) ==
    IF IsUserBlocked(u)
    THEN UNCHANGED vars
    ELSE IF ~CheckRateLimit(u, "message")
    THEN /\ admit' = [user |-> u, type |-> "message", value |-> FALSE]
         /\ UNCHANGED <<engine, admin, blocked_users, user_actions, clock,
                        verdict, scored>>
    ELSE IF ~(waiting /\ ~HasLink(text))
    THEN /\ admit' = [user |-> u, type |-> "message", value |-> TRUE]
         /\ user_actions' =
               [user_actions EXCEPT ![u] = LogUserAction(@, "message")]
         /\ UNCHANGED <<engine, admin, blocked_users, clock, verdict, scored>>
    ELSE LET result == Moderate(u, text)
             logged == "log_user_action" \in SeqToSet(result.trail)
         IN  /\ admit' = [user |-> u, type |-> "message", value |-> TRUE]
             /\ verdict' = result
             /\ user_actions' =
                   [user_actions EXCEPT ![u] =
                       IF logged
                       THEN LogUserAction(LogUserAction(@, "message"), "phrase")
                       ELSE LogUserAction(@, "message")]
             /\ scored' =
                   IF "check_suspicious_content" \in SeqToSet(result.trail)
                   THEN [text |-> text, found |-> CheckSuspiciousContent(text)]
                   ELSE scored
             /\ blocked_users' =
                   IF ~result.allowed /\ replied /\ result.auto_block
                   THEN blocked_users \cup {u}
                   ELSE blocked_users
             /\ UNCHANGED <<engine, admin, clock>>

\* block_user(user_id, reason)
BlockUser(u) ==
    /\ blocked_users' = blocked_users \cup {u}
    /\ UNCHANGED <<engine, admin, user_actions, clock, verdict, admit, scored>>

\* unblock_user(user_id)
UnblockUser(u) ==
    /\ blocked_users' = blocked_users \ {u}
    /\ UNCHANGED <<engine, admin, user_actions, clock, verdict, admit, scored>>

\* time passes
Tick(dt) ==
    /\ clock + dt <= MaxClock
    /\ clock' = clock + dt
    /\ UNCHANGED <<engine, admin, blocked_users, user_actions, verdict, admit,
                   scored>>

Next ==
    \/ \E t \in Triggers : Fire(t)
    \/ \E t \in Triggers : Skip(t)
    \/ \E t \in Triggers : Start(t)
    \/ \E t \in Triggers, ok \in BOOLEAN : GetActiveUsers(t, ok)
    \/ \E t \in Triggers : NoUsers(t)
    \/ \E t \in Triggers : NoPhrase(t)
    \/ \E t \in Triggers, p \in PhraseResults : Dispatch(t, p)
    \/ \E t \in Triggers : SendBatchDone(t)
    \/ \E t \in Triggers : BatchDelayDone(t)
    \/ \E t \in Triggers : RunFault(t)
    \/ \E u \in Users : SendOk(u)
    \/ \E u \in Users : PacingDone(u)
    \/ \E u \in Users : SendForbidden(u)
    \/ \E u \in Users, T \in RetryAfters : SendRetryAfter(u, T)
    \/ \E u \in Users : BackoffDone(u)
    \/ \E u \in Users : BackoffRaises(u)
    \/ \E u \in Users : RetryOk(u)
    \/ \E u \in Users, e \in RetryErrors : RetryFails(u, e)
    \/ \E u \in Users : SendChatMigrated(u)
    \/ \E u \in Users, b \in BOOLEAN : SendTelegramError(u, b)
    \/ \E u \in Users : SendException(u)

Spec == Init /\ [][Next]_vars

\* the event loop resumes every coroutine whose await is over, and the
\* transport and the database answer every call: the invocation that holds
\* the flag and its tasks keep moving, whatever the other triggers do
RunProgress ==
    \/ \E t \in Triggers, ok \in BOOLEAN : GetActiveUsers(t, ok)
    \/ \E t \in Triggers : NoUsers(t) \/ SendBatchDone(t) \/ BatchDelayDone(t)
    \/ \E t \in Triggers, p \in PhraseResults : Dispatch(t, p)
    \/ \E u \in Users : SendOk(u) \/ PacingDone(u) \/ BackoffDone(u) \/ RetryOk(u)

FairSpec == Spec /\ WF_vars(RunProgress)

TypeOK ==
    /\ is_sending \in BOOLEAN
    /\ notification_count \in 0..MaxRuns
    /\ active \subseteq Users
    /\ \A t \in Triggers : pc[t] \in {"idle", "fired", "get_active_users",
                                       "get_random_phrase", "gather", "sleep"}

\* ---------------------------------------------------- the spec's scenario
\* recipient list [A, B, C]: A's send succeeds, B is throttled with
\* retry_after = 1 and its retry succeeds, C blocked the bot
ScenarioList == <<1, 2, 3>>
A == ScenarioList[1]
B == ScenarioList[2]
C == ScenarioList[3]

ScenarioInit == Init /\ active = {A, B, C}

ScenarioNext ==
    \/ \E t \in Triggers : Fire(t)
    \/ \E t \in Triggers : Skip(t)
    \/ \E t \in Triggers : Start(t)
    \/ \E t \in Triggers : GetActiveUsers(t, TRUE)
    \/ \E t \in Triggers, p \in PhraseResults : Dispatch(t, p)
    \/ \E t \in Triggers : SendBatchDone(t)
    \/ \E t \in Triggers : BatchDelayDone(t)
    \/ SendOk(A)
    \/ PacingDone(A)
    \/ SendRetryAfter(B, 1)
    \/ BackoffDone(B)
    \/ RetryOk(B)
    \/ SendForbidden(C)

ScenarioSpec == ScenarioInit /\ [][ScenarioNext]_vars

\* ------------------------------------------------------- the job store
\* start() has run with some draw of the brackets; no test broadcast is
\* scheduled yet; the users table has no active row, so a broadcast ends at
\* `if not users`
JobsInit ==
    /\ EngineInit
    /\ active = {}
    /\ batch_size = MaxBatchSize
    /\ scheduler_running = TRUE
    /\ \E d \in Draws(Cardinality(DailyJobs)) :
          jobs = ScheduleDailyNotifications(
                     [j \in JobIds |-> IF j = RetryJob THEN RetryTrigger
                                       ELSE NoJob], d)
    /\ reply = NoReply
    /\ SecurityInit

JobsNext ==
    \/ \E t \in Triggers : Fire(t)
    \/ \E t \in Triggers : Skip(t)
    \/ \E t \in Triggers : Start(t)
    \/ \E t \in Triggers : GetActiveUsers(t, TRUE)
    \/ \E t \in Triggers : NoUsers(t)
    \/ \E d \in Draws(Cardinality(DailyJobs)) : Reschedule(d)
    \/ \E now \in Nows, delay \in Delays : ScheduleTestNotification(now, delay)
    \/ \E now \in Nows : GetNextNotifications(now)

JobsSpec == JobsInit /\ [][JobsNext]_vars

\* ------------------------------------ the handlers' calls during broadcasts
\* the draw that takes the last bracket at its last minute
LastDraw ==
    [i \in DailyJobs |->
        CronTrigger("daily", Len(TimeSlots) + 1 - i,
                    TimeSlots[Len(TimeSlots) + 1 - i][2] - 1, 59)]

\* one active user, one batch; the scheduler is started and a test broadcast
\* is scheduled
ControlInit ==
    /\ Init
    /\ active = {1}
    /\ batch_size = MaxBatchSize

ControlNext ==
    \/ \E t \in Triggers : Fire(t)
    \/ \E t \in Triggers : Skip(t)
    \/ \E t \in Triggers : Start(t)
    \/ \E t \in Triggers : GetActiveUsers(t, TRUE)
    \/ \E t \in Triggers : NoUsers(t)
    \/ \E t \in Triggers : Dispatch(t, "phrase")
    \/ \E t \in Triggers : SendBatchDone(t)
    \/ \E u \in Users : SendOk(u)
    \/ \E u \in Users : PacingDone(u)
    \/ \E u \in Users : SendForbidden(u)
    \/ Reschedule(LastDraw)
    \/ ScheduleTestNotification(Time(23, 59), 1)
    \/ GetNextNotifications(Time(8, 30))
    \/ GetStats
    \/ \E a \in TestAnswers : SendTestNotification(1, a)
    \/ \E cancel \in BOOLEAN : Stop(cancel)

ControlSpec == ControlInit /\ [][ControlNext]_vars

\* --------------------------------------- the test send during broadcasts
\* one active user, who is the administrator asking for the test
TestNext ==
    \/ \E t \in Triggers : Fire(t)
    \/ \E t \in Triggers : Skip(t)
    \/ \E t \in Triggers : Start(t)
    \/ \E t \in Triggers : GetActiveUsers(t, TRUE)
    \/ \E t \in Triggers : NoUsers(t)
    \/ \E t \in Triggers : Dispatch(t, "phrase")
    \/ \E t \in Triggers : SendBatchDone(t)
    \/ \E u \in Users : SendOk(u)
    \/ \E u \in Users : PacingDone(u)
    \/ \E u \in Users : SendForbidden(u)
    \/ TestSendBegin
    \/ \E a \in TestAnswers : TestSendEnd(1, a)

TestSpec == ControlInit /\ [][TestNext]_vars

\* ------------------------------------------------------- the abuse gate
\* blocked_users.txt may name anybody; no broadcast is going on
GateInit ==
    /\ EngineInit
    /\ active = {}
    /\ batch_size = MaxBatchSize
    /\ StartedInit
    /\ blocked_users \in SUBSET Subjects
    /\ user_actions = [u \in Subjects |-> <<>>]
    /\ clock = 0
    /\ verdict = NoVerdict
    /\ admit = NoAdmit
    /\ scored = NoScore

\* the phrases submitted to the gate: one for each number of patterns from
\* none to three, and four runs of a letter with a word of selling
GateTexts == {<<"hello">>, <<"!!!">>, <<"!!!", "???">>,
              <<"!!!", "@name", "dengi">>,
              <<"aaaaaa", "aaaaaa", "aaaaaa", "aaaaaa", "kupi">>}

GateNext ==
    \/ \E u \in Subjects, text \in GateTexts : AutoModeratePhrase(u, text)
    \/ \E u \in Subjects : BlockUser(u)
    \/ \E u \in Subjects : UnblockUser(u)
    \/ \E dt \in Ticks : clock + dt <= DayMinutes /\ Tick(dt)

GateSpec == GateInit /\ [][GateNext]_vars

\* ----------------------------------------------------- the rate limiter
\* the three action types check_rate_limit knows
Kinds == {"message", "phrase", "command"}

\* the timedelta of the type's branch
Window(type) ==
    CASE type = "message" -> HourMinutes
      [] type = "phrase" -> DayMinutes
      [] type = "command" -> OneMinute

\* the entry of self.rate_limits the type's branch compares with
Limit(type) ==
    CASE type = "message" -> RateLimits.messages_per_hour
      [] type = "phrase" -> RateLimits.phrases_per_day
      [] type = "command" -> RateLimits.commands_per_minute

\* datetime.now() at the first call
FirstNow == DayMinutes

\* n calls of log_user_action(user_id, type) at time t
Burst(type, n, t) == [i \in 1..n |-> [type |-> type, time |-> t]]

\* the records earlier calls of log_user_action left for one user: none; of
\* one type, one fewer than the limit or as many, as old as the window at
\* FirstNow or one minute younger; nine messages and then five commands
Histories ==
    {<<>>}
    \cup UNION {{Burst(k, n, FirstNow - a) :
                    n \in {Limit(k) - 1, Limit(k)},
                    a \in {Window(k), Window(k) - 1}} : k \in Kinds}
    \cup {Burst("message", RateLimits.messages_per_hour - 1,
                FirstNow - (HourMinutes - 1))
            \o Burst("command", RateLimits.commands_per_minute, FirstNow)}

\* the messages of the user logged from FirstNow on
NewMessages(u) ==
    {i \in 1..Len(user_actions[u]) :
        /\ user_actions[u][i].type = "message"
        /\ user_actions[u][i].time >= FirstNow}

LimiterInit ==
    /\ EngineInit
    /\ active = {}
    /\ batch_size = MaxBatchSize
    /\ StartedInit
    /\ blocked_users = {}
    /\ user_actions \in [Subjects -> Histories]
    /\ clock = FirstNow
    /\ verdict = NoVerdict
    /\ admit = NoAdmit
    /\ scored = NoScore

LimiterNext ==
    \/ \E u \in Subjects, type \in ActionTypes : CheckRateLimitCall(u, type)
    \/ \E u \in Subjects :
          /\ Cardinality(NewMessages(u)) < MaxNew
          /\ TextMessageHandler(u, <<"hello">>, FALSE, TRUE)
    \/ \E dt \in {OneMinute} : clock + dt <= FirstNow + OneMinute /\ Tick(dt)

LimiterSpec == LimiterInit /\ [][LimiterNext]_vars

\* the security manager as constructed, no broadcast going on
HandlerInit ==
    /\ EngineInit
    /\ active = {}
    /\ batch_size = MaxBatchSize
    /\ StartedInit
    /\ SecurityInit

\* ------------------------------------------------------------ the scorer
ScorerNext ==
    \/ \E text \in Texts : ScoreText(text)
    \/ \E piece \in Pieces, front \in BOOLEAN :
          Len(scored.text) < MaxPieces /\ ScoreLonger(piece, front)

ScorerSpec == HandlerInit /\ [][ScorerNext]_vars

\* --------------------------------------------------- the message handler
\* the instants at which messages arrive after the first: half a day later,
\* and a week after that
Instants == {t + w : t \in Ticks, w \in {0, WeekMinutes}}

HandlerNext ==
    \/ \E u \in Subjects, text \in Texts, waiting \in BOOLEAN,
          replied \in BOOLEAN :
          /\ Len(user_actions[u]) < MaxNew
          /\ TextMessageHandler(u, text, waiting, replied)
    \/ \E u \in Subjects : UnblockUser(u)
    \/ \E dt \in Ticks \cup {WeekMinutes} :
          clock + dt \in Instants /\ Tick(dt)

HandlerSpec == HandlerInit /\ [][HandlerNext]_vars

\* ------------------------------------------- the handler and the gate
\* the records earlier messages and phrases left for one user: none; of one
\* type, one fewer than the limit or as many, as old as the window at
\* FirstNow or one minute younger
BoundHistories ==
    {<<>>}
    \cup UNION {{Burst(k, n, FirstNow - a) :
                    n \in {Limit(k) - 1, Limit(k)},
                    a \in {Window(k), Window(k) - 1}} :
                 k \in {"message", "phrase"}}

\* the records of the user logged from FirstNow on
NewRecords(u) ==
    {i \in 1..Len(user_actions[u]) : user_actions[u][i].time >= FirstNow}

BoundInit ==
    /\ EngineInit
    /\ active = {}
    /\ batch_size = MaxBatchSize
    /\ StartedInit
    /\ blocked_users = {}
    /\ user_actions \in [Subjects -> BoundHistories]
    /\ clock = FirstNow
    /\ verdict = NoVerdict
    /\ admit = NoAdmit
    /\ scored = NoScore

\* messages go through text_message_handler, in the state waiting_phrase or
\* not, and phrases through auto_moderate_phrase; a minute passes
BoundNext ==
    \/ \E u \in Subjects, waiting \in BOOLEAN :
          /\ Cardinality(NewRecords(u)) < MaxNew
          /\ TextMessageHandler(u, <<"hello">>, waiting, TRUE)
    \/ \E u \in Subjects :
          /\ Cardinality(NewRecords(u)) < MaxNew
          /\ AutoModeratePhrase(u, <<"hello">>)
    \/ \E dt \in {OneMinute} : clock + dt <= FirstNow + OneMinute /\ Tick(dt)

BoundSpec == BoundInit /\ [][BoundNext]_vars

\* ------------------------------------------------------------------ claims

Running(t) == pc[t] \notin {"idle", "fired"}

\* C1: at every moment at most one invocation of send_batch_notification is
\* between taking the flag and clearing it, and is_sending is true exactly
\* while there is one.
C1_NoOverlap ==
    /\ Cardinality({t \in Triggers : Running(t)}) <= 1
    /\ is_sending <=> \E t \in Triggers : Running(t)

\* two triggers fired at the same instant: one took the flag, the other has
\* not been looked at yet
C1_Witness ==
    \E t1, t2 \in Triggers :
        /\ pc[t1] = "get_active_users"
        /\ pc[t2] = "fired"
        /\ is_sending

\* C2: a trigger whose coroutine begins while a run is Running returns at
\* once: nothing is fetched or sent, the run index, the lifetime counters and
\* the flag stay as they are, the run in progress is not disturbed, and the
\* trigger is idle again (nothing is left pending on its account).
C2_Dropped ==
    [][\A t \in Triggers :
          (pc[t] = "fired" /\ is_sending /\ pc'[t] # "fired")
          => /\ pc' = [pc EXCEPT ![t] = "idle"]
             /\ is_sending'
             /\ UNCHANGED <<notification_count, stats, active, users, phrase,
                            batches, batch_num, sent_count, failed_count,
                            task, outcome, sleeps, returned>>]_vars

\* a trigger has fired while the run is in the middle of a batch
C2_Witness ==
    \E t1, t2 \in Triggers :
        /\ pc[t1] = "gather"
        /\ pc[t2] = "fired"
        /\ \E u \in Users : task[u].st = "backoff"

\* C3: every run that starts returns to Idle with the flag cleared, by
\* whichever path it ends, and no invocation is left inside the run when the
\* flag is clear (so the next trigger fire finds the scheduler Idle).
C3_NeverStuck ==
    /\ is_sending ~> ~is_sending
    /\ [](~is_sending => \A t \in Triggers : ~Running(t))

\* a run that was dispatched ended without completing (the failure path), and
\* a later trigger fire has started the next run
C3_Witness ==
    /\ notification_count = 1
    /\ stats.last_batch_time = "None"
    /\ outcome.kind = "running"
    /\ is_sending

\* C4: when an unexpected failure interrupts a run, the counts of the batches
\* already completed are added to the lifetime counters.
C4_PartialStatsReported ==
    [][\A t \in Triggers :
          (Running(t) /\ outcome.kind = "running" /\ outcome'.kind = "fault")
          => /\ stats'.total_sent = stats.total_sent + sent_count[t]
             /\ stats'.total_failed = stats.total_failed + failed_count[t]]_vars

\* the batch a recipient at position i of the list belongs to
BatchOf(i, b) == ((i - 1) \div b) + 1

RECURSIVE Concat(_)
Concat(ss) == IF ss = <<>> THEN <<>> ELSE Head(ss) \o Concat(Tail(ss))

Partitioned(us, b, bs) ==
    LET n == Len(us)
        k == Len(bs)
    IN  /\ k = (n + b - 1) \div b
        /\ \A j \in 1..k : Len(bs[j]) = IF j < k THEN b ELSE n - (k - 1) * b
        /\ \A j \in 1..k : Len(bs[j]) >= 1
        /\ Concat(bs) = us

Lengths(bs) == [j \in 1..Len(bs) |-> Len(bs[j])]

\* C5: a run partitions the recipient list of length n into ceil(n/b)
\* contiguous batches in list order, all of b members except the last, which
\* has the remainder; 120 recipients with b = 50 give 50, 50, 20.
C5_Partition ==
    /\ \A t \in Triggers :
          pc[t] \in {"gather", "sleep"}
          => Partitioned(users[t], batch_size, batches[t])
    /\ Lengths(MakeBatches([i \in 1..120 |-> i], ConfiguredBatchSize))
          = <<50, 50, 20>>

\* three recipients, batch size two: a full batch and the remainder
C5_Witness ==
    \E t \in Triggers : batches[t] = <<<<1, 2>>, <<3>>>>

\* C6: a delivery exists only for a member of the batch the run is gathering:
\* while a batch is outstanding no delivery of a later batch has been
\* started, and during the cooldown no delivery is outstanding at all.
C6_Sequential ==
    \A u \in Users :
        task[u].st # "none"
        => \E t \in Triggers :
              /\ pc[t] = "gather"
              /\ \E i \in 1..Len(users[t]) :
                    /\ users[t][i] = u
                    /\ BatchOf(i, batch_size) = batch_num[t]

\* the first batch of two was gathered after a retry, the second batch is out
\* and its delivery is backing off
C6_Witness ==
    \E t \in Triggers :
        /\ batch_num[t] = 2
        /\ pc[t] = "gather"
        /\ Len(batches[t][1]) = 2
        /\ sent_count[t] + failed_count[t] = 2
        /\ \E u \in CurrentBatch(t) : task[u].st = "backoff"

\* C7: a run that dispatches k batches to completion sleeps the cooldown
\* exactly k-1 times, and a run in progress has slept once per batch gathered
\* before the one it is at.
C7_Cooldowns ==
    /\ outcome.kind = "completed" => sleeps = outcome.nbatches - 1
    /\ \A t \in Triggers : pc[t] = "gather" => sleeps = batch_num[t] - 1
    /\ \A t \in Triggers : pc[t] = "sleep" => sleeps = batch_num[t]

\* a completed run of three batches
C7_Witness ==
    /\ outcome.kind = "completed"
    /\ outcome.nbatches = 3
    /\ sleeps = 2

\* C8: in a run that completes every recipient is counted once, as sent when
\* its delivery returned True (sent at once, or sent on the retry) and as
\* failed otherwise (False, or an exception); sent + failed is the number of
\* recipients, and the lifetime counters grow by these amounts.
C8_Counted ==
    /\ [](/\ outcome.kind = "completed"
             => /\ outcome.sent = returned.true
                /\ outcome.failed = returned.other
                /\ outcome.sent + outcome.failed = outcome.recipients
          /\ \A u \in Users :
                task[u].st = "done"
                => (task[u].result = "True"
                      <=> (task[u].first = "ok" \/ task[u].second = "ok")))
    /\ [][(outcome.kind = "running" /\ outcome'.kind = "completed")
          => /\ stats'.total_sent = stats.total_sent + returned.true
             /\ stats'.total_failed = stats.total_failed + returned.other]_vars

\* the second completed run, with deliveries of both kinds, one of them a
\* task that raised
C8_Witness ==
    /\ outcome.kind = "completed"
    /\ outcome.sent >= 1
    /\ outcome.failed >= 1
    /\ stats.total_sent + stats.total_failed > outcome.recipients

\* C9: in the scenario the run ends with sent = 2, failed = 1 and C
\* inactive; B's delivery makes exactly two send calls, A's and C's one each,
\* and C's makes the one mark_user_inactive call.
C9_Scenario ==
    /\ (outcome.kind = "completed" /\ outcome.recipients = 3)
       => /\ outcome.sent = 2
          /\ outcome.failed = 1
          /\ C \notin active
    /\ \A u \in {A, B, C} :
          /\ task[u].calls <= (IF u = B THEN 2 ELSE 1)
          /\ task[u].st = "done"
             => /\ task[u].calls = (IF u = B THEN 2 ELSE 1)
                /\ task[u].marks = (IF u = C THEN 1 ELSE 0)
                /\ C \in active => u # C

C9_Witness ==
    /\ outcome.kind = "completed"
    /\ outcome.recipients = 3
    /\ outcome.sent = 2
    /\ outcome.failed = 1
    /\ C \notin active

\* C10: a delivery calls the transport at most twice, the second time only
\* after the first call was answered with RetryAfter; a retry that succeeds
\* gives True, a retry that fails gives False with no further call, and a
\* first call that fails otherwise is not retried.
C10_RetryBudget ==
    \A u \in Users :
        /\ task[u].calls <= 2
        /\ task[u].calls = 2 => task[u].first = "RetryAfter"
        /\ task[u].st \in {"backoff", "retry"} => task[u].first = "RetryAfter"
        /\ task[u].st = "done"
           => /\ task[u].second = "ok" => task[u].result = "True"
              /\ task[u].second \in RetryErrors
                 => task[u].result = "False" /\ task[u].calls = 2
              /\ task[u].first \in {"Forbidden", "ChatMigrated",
                                    "TelegramError", "Exception"}
                 => /\ task[u].calls = 1
                    /\ task[u].second = "none"
                    /\ task[u].result = "False"

\* a delivery is over after a retry that failed
C10_Witness ==
    \E u \in Users :
        /\ task[u].st = "done"
        /\ task[u].calls = 2
        /\ task[u].second \in RetryErrors
        /\ task[u].result = "False"

LiveStates == {"send", "pacing", "backoff", "retry"}

\* C11: a delivery that was answered Forbidden, at the first send or at the
\* retry, has marked the recipient inactive, made no send after that answer
\* and returned False.
C11_UnreachableDeactivated ==
    \A u \in Users :
        (task[u].st = "done"
           /\ (task[u].first = "Forbidden" \/ task[u].second = "Forbidden"))
        => /\ task[u].marks = 1
           /\ u \notin active
           /\ task[u].result = "False"
           /\ task[u].calls = (IF task[u].first = "Forbidden" THEN 1 ELSE 2)

\* C12: a delivery writes at most one notification-log row, 'sent' exactly
\* when it returns True; it marks the recipient inactive at most once and only
\* on Forbidden or on a TelegramError that says "blocked"; a step of a
\* delivery changes the users table in no other way and leaves is_sending,
\* the run index and the lifetime counters alone.
C12_LimitedEffects ==
    /\ [](\A u \in Users :
             /\ Len(task[u].nlog) <= 1
             /\ task[u].marks <= 1
             /\ task[u].marks = 1
                => \/ task[u].first = "Forbidden"
                   \/ task[u].first = "TelegramError" /\ task[u].blocked
             /\ (task[u].st = "done" /\ task[u].nlog # <<>>)
                => (task[u].nlog[1] = "sent" <=> task[u].result = "True")
             /\ (task[u].st = "done" /\ task[u].nlog = <<>>)
                => task[u].result # "True")
    /\ [][\A u \in Users :
             (task[u].st \in LiveStates /\ task'[u] # task[u])
             => /\ UNCHANGED <<is_sending, notification_count, stats>>
                /\ active' # active
                   => /\ active' = active \ {u}
                      /\ task'[u].marks = task[u].marks + 1]_vars

\* a delivery answered with a TelegramError "blocked": one 'failed' row, one
\* inactive mark
C12_Witness ==
    \E u \in Users :
        /\ task[u].st = "done"
        /\ task[u].nlog = <<"failed">>
        /\ task[u].marks = 1
        /\ task[u].blocked
        /\ is_sending

\* C19: nothing of the recipient list is kept between runs; each run's list is
\* what get_active_users answers at the run's own fetch; deliveries exist only
\* for members of that list, and none is in flight for an inactive recipient.
C19_FreshRecipients ==
    /\ [](/\ \A t \in Triggers :
                pc[t] \in {"idle", "fired", "get_active_users"}
                => users[t] = <<>>
          /\ \A u \in Users :
                task[u].st # "none"
                => \E t \in Triggers :
                      Running(t) /\ u \in SeqToSet(users[t])
          /\ \A u \in Users : task[u].st \in LiveStates => u \in active)
    /\ [][\A t \in Triggers :
             (pc[t] = "get_active_users" /\ pc'[t] = "get_random_phrase")
             => users'[t] \in {SortedSeq(active), <<>>}]_vars

\* the first run had three recipients and deactivated one; the second run
\* fetched the two that are left and is sending to them
C19_Witness ==
    \E t \in Triggers :
        /\ notification_count = 2
        /\ pc[t] = "gather"
        /\ Len(users[t]) = 2
        /\ stats.total_sent + stats.total_failed = 3
        /\ Cardinality(active) = 2
        /\ \E u \in Users : task[u].st = "send"

\* C13: once stop() has been called no invocation goes from Idle to Running,
\* and the call itself leaves every invocation that is inside a run where it
\* is, with the flag set.
C13_StopCooperative ==
    [][/\ ~scheduler_running
          => \A t \in Triggers :
                pc[t] \in {"idle", "fired"} => pc'[t] \in {"idle", "fired"}
       /\ (scheduler_running /\ ~scheduler_running')
          => \A t \in Triggers :
                Running(t) => (pc'[t] = pc[t] /\ is_sending')]_vars

\* C14: the job of schedule_test_notification is gone from the job store once
\* its trigger has fired, so it fires at most once.
C14_OneOffFiresOnce ==
    [][(pc[TestJob] = "idle" /\ pc'[TestJob] = "fired")
       => jobs'[TestJob] = NoJob]_vars

\* the brackets of the installed daily jobs are pairwise different
DistinctBrackets(js) ==
    \A i, j \in DailyJobs :
        (i # j /\ js[i] # NoJob /\ js[j] # NoJob) => js[i].slot # js[j].slot

\* C15: the job store always holds all min(DAILY_NOTIFICATIONS, 8) daily jobs,
\* never a part of them; a step that changes a daily job installs one whole
\* new draw, leaves the test job and the retry job as they were, and no
\* invocation moves in it.
C15_RescheduleAtomic ==
    /\ [](/\ \A j \in DailyJobs : jobs[j] # NoJob /\ jobs[j].kind = "daily"
          /\ Cardinality({j \in JobIds : jobs[j].kind = "daily"})
                = Min(DailyNotifications, Len(TimeSlots))
          /\ DistinctBrackets(jobs))
    /\ [][(\E j \in DailyJobs : jobs'[j] # jobs[j])
          => /\ jobs'[TestJob] = jobs[TestJob]
             /\ jobs'[RetryJob] = jobs[RetryJob]
             /\ [j \in DailyJobs |-> jobs'[j]] \in Draws(Cardinality(DailyJobs))
             /\ pc' = pc]_vars

\* the listing made before the reschedule shows a daily time that is no
\* longer installed, next to the test job that still is
C15_Witness ==
    /\ reply.op = "get_next_notifications"
    /\ Len(reply.value) = 2
    /\ jobs[TestJob] # NoJob
    /\ jobs[RetryJob] = RetryTrigger
    /\ \A j \in DailyJobs :
          \A k \in 1..Len(reply.value) : Strftime(jobs[j]) # reply.value[k]

\* the trigger's time of day lies inside its bracket [start_hour, end_hour)
InBracket(trigger) ==
    /\ TimeSlots[trigger.slot][1] * 60 <= ToMinutes(trigger)
    /\ ToMinutes(trigger) < TimeSlots[trigger.slot][2] * 60

\* in every draw of two jobs the brackets and the times are different
DrawsOfTwoDistinct ==
    \A d \in Draws(2) :
        d[1].slot # d[2].slot /\ Strftime(d[1]) # Strftime(d[2])

\* C16: every installed daily job fires at one time of day, inside its own
\* bracket; no two daily jobs share a bracket or a fire time (for the jobs
\* installed, and for every draw of two jobs).
C16_DistinctBrackets ==
    /\ \A j \in DailyJobs :
          jobs[j] # NoJob
          => /\ jobs[j].slot \in 1..Len(TimeSlots)
             /\ InBracket(jobs[j])
    /\ \A i, j \in DailyJobs :
          (i # j /\ jobs[i] # NoJob /\ jobs[j] # NoJob)
          => (jobs[i].slot # jobs[j].slot
                /\ Strftime(jobs[i]) # Strftime(jobs[j]))
    /\ DrawsOfTwoDistinct

\* a daily job at the last minute of its bracket, installed by a reschedule
\* that came after a test broadcast was scheduled and listed
C16_Witness ==
    /\ jobs[TestJob] # NoJob
    /\ \E j \in DailyJobs :
          /\ jobs[j].hour = TimeSlots[jobs[j].slot][2] - 1
          /\ jobs[j].minute = 59
          /\ reply.op = "get_next_notifications"
          /\ reply.value = <<Time(7, 0), Strftime(jobs[TestJob])>>

\* minutes from the midnight before `now` to the next run at time of day t
NextRun(t, now) ==
    IF ToMinutes(t) > ToMinutes(now) THEN ToMinutes(t)
    ELSE 24 * 60 + ToMinutes(t)

\* C17: the answer of get_next_notifications is ascending by the listed
\* triggers' next fire times.
C17_UpcomingSorted ==
    (reply.op = "get_next_notifications" /\ scheduler_running)
    => \A i, j \in 1..Len(reply.value) :
          i < j => NextRun(reply.value[i], reply.at)
                      <= NextRun(reply.value[j], reply.at)

\* C18: the run index and the lifetime counters change only in a step taken
\* while is_sending is true, and no call that answers a handler or changes
\* the job store changes them.
C18_StatsOnlyInRun ==
    [][/\ (notification_count' # notification_count \/ stats' # stats)
          => is_sending
       /\ (reply' # reply \/ jobs' # jobs
             \/ scheduler_running' # scheduler_running)
          => UNCHANGED <<notification_count, stats>>]_vars

\* get_stats answers after a completed run and a stop()
C18_Witness ==
    /\ reply.op = "get_stats"
    /\ reply.value[1].total_sent = 1
    /\ reply.value[1].total_notifications = 1
    /\ ~scheduler_running

\* C20: an evaluation for a subject who is blocked answers allowed = False
\* with the blocked reason whatever the text and the subject's record; the
\* only call it makes is is_user_blocked (no rate-limit check, no content
\* scoring) and it puts no action on record.
C20_BlockPrecedence ==
    [][\A u \in Subjects :
          (verdict' # verdict /\ verdict'.user = u /\ u \in blocked_users)
          => /\ verdict' = Verdict(u, FALSE, "blocked", 0, FALSE,
                                   <<"is_user_blocked">>)
             /\ UNCHANGED <<user_actions, blocked_users>>]_vars

\* a subject with three phrases on record for the day is blocked, and the
\* evaluation answered blocked
C20_Witness ==
    \E u \in Subjects :
        /\ u \in blocked_users
        /\ Cardinality(RecentPhrases(u)) >= RateLimits.phrases_per_day
        /\ verdict.user = u
        /\ verdict.reason = "blocked"

\* the age of a record, and the window and threshold of each action kind
Age(a) == clock - a.time
KindWindow(kind) ==
    CASE kind = "message" -> 60 [] kind = "phrase" -> 24 * 60
      [] kind = "command" -> 1
KindThreshold(kind) ==
    CASE kind = "message" -> 10 [] kind = "phrase" -> 3 [] kind = "command" -> 5
\* the subject's records of the kind with age strictly less than the window
Counted(u, kind) ==
    Cardinality({i \in 1..Len(user_actions[u]) :
                    /\ user_actions[u][i].type = kind
                    /\ Age(user_actions[u][i]) < KindWindow(kind)})

\* C21: check_rate_limit for a subject and an action kind returns False
\* exactly when the subject's records of that kind with age strictly less
\* than the kind's window number at least the kind's threshold (message 10
\* per hour, phrase 3 per 24 hours, command 5 per minute); a record as old as
\* the window is not counted.  It holds of the function in every state and of
\* what every call returned.
C21_AdmitIffBelow ==
    /\ [](\A u \in Subjects, kind \in Kinds :
            (~CheckRateLimit(u, kind))
               <=> (Counted(u, kind) >= KindThreshold(kind)))
    /\ [][(admit' # admit /\ admit'.type \in Kinds)
            => ((~admit'.value)
                  <=> (Counted(admit'.user, admit'.type)
                          >= KindThreshold(admit'.type)))]_vars

\* a call was answered False, while a subject whose records of one kind reach
\* the threshold is admitted because every one of them is exactly as old as
\* the window
C21_Witness ==
    /\ ~admit.value
    /\ \E u \in Subjects, kind \in Kinds :
          /\ Len(user_actions[u]) >= KindThreshold(kind)
          /\ \A i \in 1..Len(user_actions[u]) :
                /\ user_actions[u][i].type = kind
                /\ Age(user_actions[u][i]) = KindWindow(kind)
          /\ CheckRateLimit(u, kind)

\* the step is an evaluation of a phrase for subject u that is not blocked:
\* the answer or the records changed, and the answer is for u
Evaluated(u) ==
    /\ verdict' # verdict \/ user_actions' # user_actions
    /\ verdict'.user = u
    /\ u \notin blocked_users

\* C22: when the phrase rate-limit check fails for a subject who is not
\* blocked, the evaluation answers allowed = False with the rate-limit
\* reason, severity 3 and auto_block False; it does not score the text, and
\* it leaves the subject's record and the set of blocked subjects unchanged.
C22_RateLimitedTerminal ==
    [][\A u \in Subjects :
          (Evaluated(u) /\ Counted(u, "phrase") >= KindThreshold("phrase"))
          => /\ ~verdict'.allowed
             /\ verdict'.reason = "rate_limit"
             /\ verdict'.suspicion_level = 3
             /\ ~verdict'.auto_block
             /\ "check_suspicious_content" \notin SeqToSet(verdict'.trail)
             /\ UNCHANGED <<user_actions, blocked_users, scored>>]_vars

\* the fourth phrase of a subject at one instant was turned away
C22_Witness ==
    \E u \in Subjects :
        /\ verdict.user = u
        /\ verdict.reason = "rate_limit"
        /\ u \notin blocked_users
        /\ Len(user_actions[u]) = 3
        /\ \A i \in 1..3 : user_actions[u][i].time = clock

\* C23: for a subject who is not blocked and is under the phrase limit the
\* verdict depends on the severity only: 3 or more gives allowed = False and
\* auto_block True, 2 gives allowed = False for manual review and auto_block
\* False, 0 or 1 gives allowed = True and auto_block False; the severity
\* returned is the number of patterns the scorer found.
C23_VerdictBySeverity ==
    [][\A u \in Subjects :
          (Evaluated(u) /\ Counted(u, "phrase") < KindThreshold("phrase"))
          => LET level == verdict'.suspicion_level
             IN  /\ scored'.found = CheckSuspiciousContent(scored'.text)
                 /\ level = Len(scored'.found)
                 /\ level >= 3
                      => (~verdict'.allowed /\ verdict'.auto_block
                            /\ verdict'.reason = "suspicious")
                 /\ level = 2
                      => (~verdict'.allowed /\ ~verdict'.auto_block
                            /\ verdict'.reason = "manual")
                 /\ level \in {0, 1}
                      => (verdict'.allowed /\ ~verdict'.auto_block)]_vars

\* a phrase with two patterns was held for manual review, after one with
\* a single pattern had been accepted
C23_Witness ==
    \E u \in Subjects :
        /\ verdict.user = u
        /\ verdict.suspicion_level = 2
        /\ verdict.reason = "manual"
        /\ ~verdict.auto_block
        /\ Len(user_actions[u]) = 2

\* C24: every evaluation that passes the block check and the rate-limit
\* check puts exactly one phrase record on the subject's record, whatever
\* the verdict on the content, and nothing on anybody else's; so once three
\* evaluations of a subject have passed within 24 hours, the next one in
\* that window is turned away as rate-limited.
C24_RecordAfterDecision ==
    [][\A u \in Subjects :
          Evaluated(u)
          => IF Counted(u, "phrase") < KindThreshold("phrase")
             THEN /\ Len(user_actions'[u]) > 0
                  /\ user_actions'[u][Len(user_actions'[u])]
                        = [type |-> "phrase", time |-> clock]
                  /\ Counted(u, "phrase")' = Counted(u, "phrase") + 1
                  /\ \A v \in Subjects \ {u} :
                        user_actions'[v] = user_actions[v]
             ELSE /\ verdict'.reason = "rate_limit"
                  /\ Counted(u, "phrase")' = Counted(u, "phrase")]_vars

\* three phrases of a subject are on record within 24 hours, the third one
\* rejected for its content twelve hours after the first
C24_Witness ==
    \E u \in Subjects :
        /\ verdict.user = u
        /\ ~verdict.allowed
        /\ verdict.reason \in {"manual", "suspicious"}
        /\ u \notin blocked_users
        /\ Counted(u, "phrase") = 3
        /\ user_actions[u][1].time < user_actions[u][3].time
        /\ user_actions[u][3].time = clock

\* C25: whenever the evaluation of a submission answers auto_block = True
\* for a subject who was not blocked, the subject is in blocked_users once
\* the submission has been processed; and an evaluation for a subject in
\* blocked_users answers blocked, whatever the text.
C25_AutoBlockBlocks ==
    /\ [](\A u \in blocked_users, text \in Texts :
            Moderate(u, text).reason = "blocked")
    /\ [][\A u \in Subjects, text \in Texts, replied \in BOOLEAN :
            (/\ TextMessageHandler(u, text, TRUE, replied)
             /\ u \notin blocked_users
             /\ CheckRateLimit(u, "message")
             /\ ~HasLink(text)
             /\ Moderate(u, text).auto_block)
            => u \in blocked_users']_vars

\* C29: in every state no record of any subject is older than 7 days, and
\* each subject's records are in non-decreasing order of time.
C29_Retention ==
    \A u \in Subjects :
        /\ \A i \in 1..Len(user_actions[u]) :
              Age(user_actions[u][i]) <= 7 * 24 * 60
        /\ \A i, j \in 1..Len(user_actions[u]) :
              i < j => user_actions[u][i].time <= user_actions[u][j].time

\* a text of four runs of one repeated letter and one advertising marker,
\* and nothing else
FourRunsAndAnAd(text) ==
    /\ Len(text) = 5
    /\ Cardinality({i \in 1..Len(text) : text[i] = "aaaaaa"}) = 4
    /\ Cardinality({i \in 1..Len(text) :
                       text[i] \in {"kupi", "skidka", "dengi", "kanal"}}) = 1

\* C26 as stated: a text of four repeated-letter runs and one advertising
\* marker, from a subject who is not blocked and is under the phrase limit,
\* gets severity 3 or more and the verdict allowed = False, auto_block True.
C26_ScenarioBlocks ==
    [][\A u \in Subjects :
          (/\ Evaluated(u)
           /\ Counted(u, "phrase") < KindThreshold("phrase")
           /\ FourRunsAndAnAd(scored'.text))
          => /\ verdict'.suspicion_level >= 3
             /\ ~verdict'.allowed
             /\ verdict'.auto_block]_vars

\* C26 as amended: such a text gets severity 2, one for the repeated
\* characters and one for the advertising marker, and the verdict
\* allowed = False for manual review with auto_block False.
C26_ScenarioReviewed ==
    [][\A u \in Subjects :
          (/\ Evaluated(u)
           /\ Counted(u, "phrase") < KindThreshold("phrase")
           /\ FourRunsAndAnAd(scored'.text))
          => /\ verdict'.suspicion_level = 2
             /\ scored'.found = <<"repeat", "sale">>
             /\ ~verdict'.allowed
             /\ verdict'.reason = "manual"
             /\ ~verdict'.auto_block]_vars

\* the text of the scenario was evaluated for a subject who is not blocked
C26_Witness ==
    /\ FourRunsAndAnAd(scored.text)
    /\ verdict.user \in Subjects \ blocked_users
    /\ verdict.suspicion_level = Len(scored.found)
    /\ verdict.trail = <<"is_user_blocked", "check_rate_limit",
                         "check_suspicious_content", "log_user_action">>

\* the six classes of patterns, and the class of each regex of the list
ClassOf(pattern) ==
    CASE pattern = "repeat" -> "repeated characters"
      [] pattern \in {"excl", "quest"} -> "punctuation"
      [] pattern = "upper" -> "uppercase"
      [] pattern = "link" -> "short link"
      [] pattern = "mention" -> "mention"
      [] pattern \in {"sale", "money", "channel"} -> "advertising"

\* the classes with a match in the text as typed (a marker typed in capitals
\* is a marker)
ClassesMatched(text) ==
    {ClassOf(SuspiciousPatterns[k]) : k \in
        {k \in 1..Len(SuspiciousPatterns) :
            \/ Search(SuspiciousPatterns[k], text)
            \/ Search(SuspiciousPatterns[k], Lower(text))}}

\* C27: the severity is the number of distinct classes matched, out of the
\* six classes; several matches inside one class count once.
C27_CountsClasses ==
    Len(scored.found) = Cardinality(ClassesMatched(scored.text))

\* the patterns a piece matches once the text is in small letters
PatternsOf(piece) ==
    {SuspiciousPatterns[k] : k \in
        {k \in 1..Len(SuspiciousPatterns) :
            LowerPiece(piece) \in Hits(SuspiciousPatterns[k])}}

\* C28: the list found is a function of the text alone, scoring changes
\* nothing but the answer, and a text with one more piece never has fewer
\* patterns found: every pattern found before is found again, and when the
\* piece matches only patterns found before, the list is the same.
C28_ScorerMonotone ==
    /\ [](scored.found = CheckSuspiciousContent(scored.text))
    /\ [][scored' # scored
            => /\ UNCHANGED <<blocked_users, user_actions, clock, verdict,
                              admit>>
               /\ \A piece \in Pieces :
                     (\/ scored'.text = Append(scored.text, piece)
                      \/ scored'.text = <<piece>> \o scored.text)
                     => /\ Len(scored'.found) >= Len(scored.found)
                        /\ SeqToSet(scored.found)
                              \subseteq SeqToSet(scored'.found)
                        /\ SeqToSet(scored'.found)
                              = SeqToSet(scored.found) \cup PatternsOf(piece)
                        /\ PatternsOf(piece) \subseteq SeqToSet(scored.found)
                              => scored'.found = scored.found]_vars

\* a text of three markers of selling, one of them in capitals, scores one
C28_Witness ==
    /\ scored.text = <<"kupi", "skidka", "KUPI">>
    /\ scored.found = <<"sale">>

\* C30: check_rate_limit puts nothing on record: a call leaves every
\* subject's records as they were.  The records change only in the message
\* handler, and only after check_rate_limit returned True for that subject:
\* one message is added to that subject's records and nobody else's change;
\* a message turned away by the limit is not counted.
C30_AdmitRecordsNothing ==
    [][/\ \A u \in Subjects, type \in ActionTypes :
             CheckRateLimitCall(u, type) => user_actions' = user_actions
       /\ (admit' # admit /\ ~admit'.value) => user_actions' = user_actions
       /\ \A u \in Subjects :
             user_actions'[u] # user_actions[u]
             => /\ CheckRateLimit(u, "message")
                /\ admit' = [user |-> u, type |-> "message", value |-> TRUE]
                /\ Counted(u, "message")' = Counted(u, "message") + 1
                /\ \A v \in Subjects \ {u} :
                      user_actions'[v] = user_actions[v]]_vars

\* the tenth message of the hour was put on record, and the eleventh was
\* turned away and left no record
C30_Witness ==
    \E u \in Subjects :
        /\ admit = [user |-> u, type |-> "message", value |-> FALSE]
        /\ Cardinality(NewMessages(u)) = 1
        /\ Counted(u, "message") = 10
        /\ Len(user_actions[u]) = 10

\* the number of records of the sequence equal to r
CountOf(acts, r) == Cardinality({i \in 1..Len(acts) : acts[i] = r})

\* the records of the subject that are younger than seven days
Young(u) == SelectSeq(user_actions[u], LAMBDA a : Age(a) < WeekMinutes)

\* C31: handlers for the same or for different subjects run in any order;
\* in every step each subject's records younger than 7 days are all still
\* stored afterwards, a step that records for one subject leaves every other
\* subject's records as they were and ends that subject's list with the new
\* record, and a subject enters or leaves the blocked set only by their own
\* block or unblock, which leaves every other subject's membership alone.
C31_NoEntryLost ==
    [][\A u \in Subjects :
          /\ \A i \in 1..Len(Young(u)) :
                CountOf(user_actions'[u], Young(u)[i])
                    >= CountOf(user_actions[u], Young(u)[i])
          /\ user_actions'[u] # user_actions[u]
                => /\ \A v \in Subjects \ {u} :
                         user_actions'[v] = user_actions[v]
                   /\ Len(user_actions'[u]) > Len(Young(u))
                   /\ user_actions'[u][Len(user_actions'[u])].time = clock
          /\ (u \in blocked_users /\ u \notin blocked_users')
                => UnblockUser(u)
          /\ (u \notin blocked_users /\ u \in blocked_users')
                => /\ verdict'.user = u
                   /\ verdict'.auto_block
                   /\ blocked_users' = blocked_users \cup {u}]_vars

\* both subjects have records, one of them records of two instants, and one
\* subject is blocked
C31_Witness ==
    \E u \in Subjects, v \in Subjects :
        /\ u # v
        /\ Len(user_actions[u]) >= 2
        /\ user_actions[u][1].time < user_actions[u][Len(user_actions[u])].time
        /\ Len(user_actions[v]) >= 1
        /\ blocked_users # {}

\* the reasons a rejection carries
Reasons == {"blocked", "rate_limit", "suspicious", "manual"}

\* C32: for every subject, text and history the evaluation can be made and
\* returns an assessment; in every assessment returned, allowed is False
\* exactly when the reason is not empty, a reason given is one of blocked,
\* rate-limited, suspicious content and manual review, and auto_block is
\* True only when allowed is False.
C32_RejectionIsDecision ==
    /\ \A u \in Subjects, text \in GateTexts :
          ENABLED AutoModeratePhrase(u, text)
    /\ verdict # NoVerdict
          => /\ ~verdict.allowed <=> verdict.reason # ""
             /\ verdict.reason # "" => verdict.reason \in Reasons
             /\ verdict.auto_block => ~verdict.allowed

\* each kind of assessment has been returned: the one the latest evaluation
\* gave is a rejection for review, and the subjects' states show a blocked
\* subject and a subject at the phrase limit
C32_Witness ==
    /\ verdict.reason = "manual"
    /\ ~verdict.allowed
    /\ blocked_users # {}
    /\ \E u \in Subjects : ~CheckPhraseRateLimit(u)

\* C33: a delivery answered RetryAfter with T seconds sleeps T seconds when
\* T is below 60 and 60 seconds otherwise, so no backoff sleep is longer
\* than 60 seconds; the second send is made in the step that ends that
\* sleep and in no other, and it is made once.
C33_BackoffCapped ==
    /\ [](\A u \in Users :
            /\ task[u].wait_time <= 60
            /\ task[u].calls <= 2)
    /\ [][\A u \in Users :
            /\ (task[u].st = "send" /\ task'[u].st = "backoff")
                  => \E T \in RetryAfters :
                        /\ SendRetryAfter(u, T)
                        /\ task'[u].wait_time = (IF T < 60 THEN T ELSE 60)
            /\ (task[u].calls >= 1 /\ task'[u].calls > task[u].calls)
                  => /\ task[u].st = "backoff"
                     /\ task[u].wait_time > 0
                     /\ task'[u].st = "retry"
            /\ (task[u].st # "retry" /\ task'[u].st = "retry")
                  => task[u].st = "backoff"]_vars

\* two deliveries of one batch are in their backoff sleep, one for the time
\* the server asked and one for the cap
C33_Witness ==
    \E u \in Users, v \in Users :
        /\ task[u].st = "backoff"
        /\ task[u].wait_time = RetryAfterCap
        /\ task[v].st = "backoff"
        /\ task[v].wait_time \in RetryAfters
        /\ task[v].wait_time < RetryAfterCap

\* the text as typed has a run of ten capitals, and neither as typed nor in
\* small letters has it a match of any other pattern
OnlyUpperRun(text) ==
    /\ Search("upper", text)
    /\ \A k \in 1..Len(SuspiciousPatterns) :
          SuspiciousPatterns[k] # "upper"
          => /\ ~Search(SuspiciousPatterns[k], text)
             /\ ~Search(SuspiciousPatterns[k], Lower(text))

\* C34: a text with a run of ten or more capitals in a row that matches no
\* other pattern is given severity 1, the uppercase pattern being the one
\* found.
C34_UpperRunScores ==
    OnlyUpperRun(scored.text)
    => /\ Len(scored.found) = 1
       /\ scored.found[1] = "upper"

\* the delivery of u can make the step its state calls for
CanStep(u) ==
    /\ task[u].st = "send"
          => /\ ENABLED SendOk(u)
             /\ ENABLED SendForbidden(u)
             /\ \A T \in RetryAfters : ENABLED SendRetryAfter(u, T)
    /\ task[u].st = "pacing" => ENABLED PacingDone(u)
    /\ task[u].st = "backoff" => ENABLED BackoffDone(u)
    /\ task[u].st = "retry" => ENABLED RetryOk(u)

\* the deliveries of the batch the run is gathering that are counted so far
CountedSoFar(t) == sent_count[t] + failed_count[t]

\* C35: when a batch is handed out a delivery is started for every member
\* in the same step, before any is awaited; while the batch is gathered a
\* delivery that is due a step can take it whatever the others are doing
\* (sleeping for pacing or backoff, or over with a failure); and when the
\* batch's counts are returned every member's delivery is over and the
\* counts grow by the size of the batch.
C35_BatchConcurrent ==
    /\ [](\A t \in Triggers :
            pc[t] = "gather"
            => \A u \in CurrentBatch(t) :
                  /\ task[u].st \in LiveStates \cup {"done"}
                  /\ CanStep(u))
    /\ [][\A t \in Triggers :
            /\ (pc'[t] = "gather" /\ (pc[t] # "gather"))
                  => \A u \in CurrentBatch(t)' :
                        /\ task'[u].st = "send"
                        /\ task'[u].calls = 1
            /\ (pc[t] = "gather" /\ pc'[t] = "sleep")
                  => /\ \A u \in CurrentBatch(t) : task[u].st = "done"
                     /\ CountedSoFar(t)'
                          = CountedSoFar(t) + Cardinality(CurrentBatch(t))
            /\ (pc[t] = "gather" /\ outcome'.kind = "completed")
                  => /\ \A u \in CurrentBatch(t) : task[u].st = "done"
                     /\ outcome'.sent + outcome'.failed
                          = CountedSoFar(t) + Cardinality(CurrentBatch(t))]_vars

\* in a batch of two the first member sleeps its backoff, and the second
\* member's delivery is over: it failed
C35_Witness ==
    \E t \in Triggers :
        /\ pc[t] = "gather"
        /\ Len(batches[t][batch_num[t]]) = 2
        /\ task[batches[t][batch_num[t]][1]].st = "backoff"
        /\ task[batches[t][batch_num[t]][2]].st = "done"
        /\ task[batches[t][batch_num[t]][2]].result = "False"

\* the instants at which a trailing window of the subject is looked at: now,
\* and the time of each of the subject's records
WindowEnds(u) ==
    {clock} \cup {user_actions[u][i].time : i \in 1..Len(user_actions[u])}

\* the subject's records of the kind inside the window that ends at e
InWindow(u, kind, e) ==
    {i \in 1..Len(user_actions[u]) :
        /\ user_actions[u][i].type = kind
        /\ user_actions[u][i].time <= e
        /\ e - user_actions[u][i].time < KindWindow(kind)}

\* C36: messages are recorded by the message handler only and phrases by
\* the gate only, in any order of calls; in every state, for every subject
\* and every trailing window (ending now or at one of the subject's
\* records), at most 3 phrase records lie inside the 24 hours and at most 10
\* message records inside the hour.
C36_RateBound ==
    \A u \in Subjects :
        \A e \in WindowEnds(u) :
            /\ Cardinality(InWindow(u, "phrase", e)) <= 3
            /\ Cardinality(InWindow(u, "message", e)) <= 10

\* one subject stands at three phrases inside the day, the third of them
\* new, and the latest phrase was turned away at the limit; the other stands
\* at ten messages inside the hour, the tenth of them new
C36_Witness ==
    \E u \in Subjects, v \in Subjects :
        /\ Cardinality(InWindow(u, "phrase", clock)) = 3
        /\ \E i \in NewRecords(u) : user_actions[u][i].type = "phrase"
        /\ verdict.user = u
        /\ verdict.reason = "rate_limit"
        /\ Cardinality(InWindow(v, "message", clock)) = 10
        /\ \E i \in NewRecords(v) : user_actions[v][i].type = "message"

\* the answers in which the transport says the recipient is unreachable for
\* good: at the first send, or at the retry
Unreachable == {"Forbidden", "RetryAfter_Forbidden"}

\* C37: a test send can begin and can finish whatever is_sending is, and no
\* step of it changes is_sending, the counters, or a run's position and
\* deliveries; a trigger that fired while a test send is in progress and
\* finds the flag clear starts its run; and a test send whose delivery is
\* answered that the recipient is unreachable for good leaves that recipient
\* inactive.
C37_TestOutsideExclusion ==
    /\ [](/\ ~TestPending => ENABLED TestSendBegin
          /\ TestPending => \A a \in TestAnswers : ENABLED TestSendEnd(1, a)
          /\ \A t \in Triggers :
                (TestPending /\ pc[t] = "fired" /\ ~is_sending
                   /\ notification_count < MaxRuns)
                => ENABLED Start(t))
    /\ [][reply' # reply
            => UNCHANGED <<is_sending, notification_count, stats, pc, task>>]_vars
    /\ [][\A a \in Unreachable : TestSendEnd(1, a) => 1 \notin active']_vars

\* the invocation holds the flag and has not handed out a batch yet
Fetching(t) == pc[t] \in {"get_active_users", "get_random_phrase"}

\* C38: an invocation that began in Idle and finds no recipient, or no
\* phrase, makes no send: from its start to its return no delivery exists,
\* the run index and the lifetime counters stay as they were, and it returns
\* with is_sending False; with an empty recipient list or an empty phrase no
\* batch is handed out.
C38_EmptyRunNoEffect ==
    /\ [](\A t \in Triggers :
            /\ Fetching(t)
                  => /\ is_sending
                     /\ \A u \in Users : task[u].st = "none"
            /\ ~ENABLED Dispatch(t, "")
            /\ users[t] = <<>>
                  => \A p \in PhraseResults : ~ENABLED Dispatch(t, p))
    /\ [][\A t \in Triggers :
            /\ (pc[t] = "fired" /\ pc'[t] = "get_active_users")
                  => UNCHANGED <<notification_count, stats, task>>
            /\ (Fetching(t) /\ pc'[t] # "gather")
                  => UNCHANGED <<notification_count, stats, task>>
            /\ (Fetching(t) /\ pc'[t] = "idle")
                  => /\ ~is_sending'
                     /\ outcome'.kind \in {"no_users", "no_phrase"}
                     /\ users[t] = <<>> => outcome'.kind = "no_users"
                     /\ outcome'.sent = 0 /\ outcome'.failed = 0]_vars

\* after a run that sent to its recipients and lost them all, the next
\* trigger found no recipient: the run index is still 1
C38_Witness ==
    /\ outcome.kind = "no_users"
    /\ ~is_sending
    /\ notification_count = 1
    /\ stats.total_failed >= 1
    /\ \A t \in Triggers : pc[t] = "idle"

\* the invocation has handed out its first batch and has not returned
Sending(t) == pc[t] \in {"gather", "sleep"}

\* C39: a run fetches its recipients and its phrase once, before the first
\* batch: the recipient list is set in the step that ends get_active_users
\* and the phrase in the step that hands out the first batch, and from then
\* to the run's return the list, the phrase and the batches stay as they
\* are whatever happens to the users table; every delivery of the run, at
\* its first send and at its retry, in every batch, carries that phrase.
C39_OneFetchOnePayload ==
    /\ [](\A t \in Triggers :
            Sending(t)
            => /\ phrase[t] \in PhraseResults \ {""}
               /\ batches[t] = MakeBatches(users[t], batch_size)
               /\ \A u \in Users :
                     task[u].st # "none" => task[u].text = phrase[t])
    /\ [][\A t \in Triggers :
            /\ users'[t] # users[t]
                  => \/ pc[t] = "get_active_users"
                     \/ pc'[t] = "idle" /\ users'[t] = <<>>
            /\ phrase'[t] # phrase[t]
                  => \/ pc[t] = "get_random_phrase" /\ pc'[t] = "gather"
                     \/ pc'[t] = "idle" /\ phrase'[t] = "none"
            /\ (Sending(t) /\ Sending(t)')
                  => UNCHANGED <<users, phrase, batches>>
            /\ \A u \in Users :
                  (task[u].st \in LiveStates /\ task'[u].st \in LiveStates)
                  => task'[u].text = task[u].text]_vars

\* the second batch of a run is out and its delivery is at the retry, with
\* the phrase fetched at the start, after a recipient of the first batch was
\* marked inactive
C39_Witness ==
    \E t \in Triggers :
        /\ pc[t] = "gather"
        /\ batch_num[t] = 2
        /\ phrase[t] = "phrase"
        /\ \E u \in SeqToSet(users[t]) : u \notin active
        /\ \E u \in CurrentBatch(t) :
              /\ task[u].st = "retry"
              /\ task[u].text = "phrase"

====
